---- MODULE Spec2Model ----
(***************************************************************************)
(* A model of the xpander expansion pipeline: the typing buffer and the    *)
(* suffix-trie / regex matcher (engine/matcher.rs, engine/trie.rs), the    *)
(* snippet flattening of the configuration (config/loader.rs), the engine  *)
(* loop with its two channels (engine/mod.rs) and the tasks of main.rs     *)
(* that write the shared configuration and the enabled flag.               *)
(*                                                                         *)
(* A Rust String is modelled as the sequence of its chars; byte lengths    *)
(* and byte offsets are computed from the UTF-8 width of each char, since  *)
(* the code mixes byte offsets (len, truncate, drain, Match::start) with   *)
(* char indices (chars().nth, the depth of the trie walk).                 *)
(* An Option is a sequence of length 0 (None) or 1 (Some).                 *)
(***************************************************************************)
EXTENDS Naturals, Sequences, FiniteSets, TLC

\* ------------------------------------------------------------------ bounds

\* The most chars pushed into a matcher that is driven on its own.
MaxTyped == 3

\* The most keys the keyboard monitor sends to the engine.
MaxKeys == 2

\* Length of the snippet vectors handed to Matcher::reload directly.
MaxSnippets == 2

\* Length of the snippet vectors loaded into the trie on its own.
MaxInserts == 3

\* Capacity used for the event channel (the code's capacity, 256, is never
\* reached by MaxKeys events).
MaxQueue == 2

\* The most reload signals, and the most configurations from the file
\* watcher, waiting in their channels.
MaxSignals == 1

\* How many chars short of max_buffer_size the long typing buffers start.
NearFull == 1

\* Length of the replace texts handed to expand_match directly.
MaxText == 5

\* The greatest delete_count and cursor_offset of the ExpansionResults
\* handed to output_expansion directly.
MaxRepeat == 2

\* Length of the triggers handed to propagate_case directly.
MaxTrigger == 3

\* Length of the replacements handed to propagate_case directly.
MaxReplacement == 2

\* The most pieces (tokens and plain chars) of the texts handed to
\* expand_variables directly.
MaxPieces == 2

\* The events the monitor on its own may leave on the event channel.
MaxSent == 1

\* The greatest N of the random:N tokens.
MaxDigits == 21

\* The device nodes that appear while the monitor runs.
MaxPlugs == 3

\* The keystroke_delay_ms of the configuration that does not keep the default.
OtherDelay == 20

\* The create notifications watcher_rx holds before the watcher waits.
MaxWatch == 2

\* ------------------------------------------------------------------ chars

\* The characters the keymaps emit that the model types: a letter, an ASCII
\* punctuation character, a whitespace character and the two-byte letter of
\* the AZERTY digit row.
Char == {"a", ";", " ", "é"}

\* char::len_utf8
len_utf8(ch) == IF ch = "é" THEN 2 ELSE 1

\* char::is_whitespace
is_whitespace(ch) == ch = " "

\* char::is_ascii_punctuation, on the chars of the model
is_ascii_punctuation(ch) == ch \in {";", ":", "@", ",", "?"}

None == << >>

Some(x) == << x >>

\* The letters that have a case, each lowercase letter with the chars of its
\* uppercase mapping: ß maps to the two chars SS.
CaseTable ==
    {<<"a", <<"A">> >>, <<"é", <<"É">> >>, <<"m", <<"M">> >>, <<"q", <<"Q">> >>,
     <<"s", <<"S">> >>, <<"x", <<"X">> >>, <<"y", <<"Y">> >>, <<"ß", <<"S", "S">> >>}

\* char::is_lowercase
is_lowercase(ch) == \E p \in CaseTable : p[1] = ch

\* char::is_uppercase
is_uppercase(ch) == \E p \in CaseTable : Len(p[2]) = 1 /\ p[2][1] = ch

\* char::is_alphabetic
is_alphabetic(ch) == is_lowercase(ch) \/ is_uppercase(ch)

\* char::to_uppercase: the chars of the uppercase mapping of ch.
to_uppercase(ch) ==
    IF is_lowercase(ch) THEN (CHOOSE p \in CaseTable : p[1] = ch)[2] ELSE <<ch>>

\* str::to_uppercase
RECURSIVE str_to_uppercase(_)
str_to_uppercase(s) ==
    IF s = << >> THEN << >> ELSE to_uppercase(Head(s)) \o str_to_uppercase(Tail(s))

\* ------------------------------------------------------------------ String

\* The number of chars of s that UTF-8 encodes in w bytes.
CharsOfWidth(s, w) == Cardinality({i \in DOMAIN s : len_utf8(s[i]) = w})

\* str::len: the length in bytes, the sum of the chars' encoded lengths (a
\* char takes 1 to 4 bytes).
str_len(s) ==
    CharsOfWidth(s, 1) + 2 * CharsOfWidth(s, 2)
    + 3 * CharsOfWidth(s, 3) + 4 * CharsOfWidth(s, 4)

\* The prefix of s made of its first k chars.
Prefix(s, k) == SubSeq(s, 1, k)

\* The suffix of s from char index k (1-based) on.
Suffix(s, k) == SubSeq(s, k, Len(s))

\* The greatest k in lo..hi such that the first k chars of s take at most n
\* bytes (found by halving the range: the byte offsets of the chars grow).
RECURSIVE CharsWithin(_, _, _, _)
CharsWithin(s, n, lo, hi) ==
    IF lo = hi THEN lo
    ELSE LET mid == (lo + hi + 1) \div 2
         IN IF str_len(Prefix(s, mid)) <= n
            THEN CharsWithin(s, n, mid, hi)
            ELSE CharsWithin(s, n, lo, mid - 1)

\* The number of chars that lie before byte offset n (n a char boundary).
CharsBefore(s, n) == CharsWithin(s, n, 0, Len(s))

\* str::is_char_boundary: byte offset n starts a char or is the end.
is_char_boundary(s, n) == str_len(Prefix(s, CharsBefore(s, n))) = n

\* str::chars().nth(k), k counted from 0.
chars_nth(s, k) == IF k < Len(s) THEN Some(s[k + 1]) ELSE None

\* str::chars().rev()
Reverse(s) == [i \in 1..Len(s) |-> s[Len(s) + 1 - i]]

\* s ends with t
EndsWith(s, t) == Len(t) <= Len(s) /\ Suffix(s, Len(s) - Len(t) + 1) = t

\* All sequences over S of length at most n.
RECURSIVE SeqsUpTo(_, _)
SeqsUpTo(S, n) ==
    IF n = 0 THEN {<< >>}
    ELSE LET shorter == SeqsUpTo(S, n - 1)
         IN shorter \cup {Append(q, x) : q \in {r \in shorter : Len(r) = n - 1}, x \in S}

Range(s) == {s[i] : i \in DOMAIN s}

\* s without the first of its elements that equals x.
RemoveFirst(s, x) ==
    IF x \notin Range(s) THEN s
    ELSE LET i == CHOOSE k \in DOMAIN s : s[k] = x /\ \A j \in 1..(k - 1) : s[j] # x
         IN SubSeq(s, 1, i - 1) \o SubSeq(s, i + 1, Len(s))

\* ------------------------------------------------------------------ Snippet

\* config::Snippet, as Snippet::new builds it. Only the fields the pipeline
\* reads are kept; label, applications and exclude_applications are never
\* read by the matcher. A replace text is the sequence of its chars, a
\* {{...}} token counting as one element.
Snippet(trigger, replace, word_boundary, regex, enabled) ==
    [trigger |-> trigger, replace |-> replace, word_boundary |-> word_boundary,
     regex |-> regex, enabled |-> enabled, cursor_position |-> FALSE]

\* Snippet::with_cursor_position
with_cursor_position(s) == [s EXCEPT !.cursor_position = TRUE]

\* ------------------------------------------------------------------ Trie

\* Trie::new: a trie is the map from the path of each node (the reversed
\* trigger prefix that leads to it) to the node's snippet; the root is the
\* empty path.
Trie_new == (<< >> :> None)

\* Trie::insert: walk the trigger from its last char, creating the missing
\* nodes, and store the snippet at the node reached.
Trie_insert(trie, snippet) ==
    LET rev == Reverse(snippet.trigger)
        paths == {Prefix(rev, k) : k \in 0..Len(rev)}
    IN [p \in (DOMAIN trie) \cup paths |->
           IF p = rev THEN Some(snippet)
           ELSE IF p \in DOMAIN trie THEN trie[p]
           ELSE None]

\* The loop of Trie::find_match: node is the path reached, depth its length,
\* best the last terminal node seen, rest the chars not yet walked (reversed).
RECURSIVE find_match_walk(_, _, _, _, _)
find_match_walk(trie, node, depth, best, rest) ==
    IF rest = << >> THEN best
    ELSE LET next_node == Append(node, Head(rest))
         IN IF next_node \in DOMAIN trie
            THEN find_match_walk(trie, next_node, depth + 1,
                                 IF trie[next_node] # None
                                 THEN Some(<<trie[next_node][1], depth + 1>>)
                                 ELSE best,
                                 Tail(rest))
            ELSE best

\* Trie::find_match, the variant that stops at the first terminal node.
find_match_first(trie, params) ==
    LET rev == Reverse(params)
        hits == {k \in 1..Len(rev) :
                    /\ Prefix(rev, k) \in DOMAIN trie
                    /\ trie[Prefix(rev, k)] # None}
    IN IF hits = {} THEN None
       ELSE LET k == CHOOSE h \in hits : \A g \in hits : h <= g
            IN Some(<<trie[Prefix(rev, k)][1], k>>)

\* Trie::find_match: Some(<<snippet, depth>>) or None.
find_match(trie, params) ==
    find_match_walk(trie, << >>, 0, None, Reverse(params))

\* ------------------------------------------------------------------ Regex

\* The regex crate, for the fragment of its syntax the snippets of the model
\* use: a pattern is a sequence of pieces, a piece is a literal char with an
\* optional quantifier ? or +, or a capture group ( ) around one such
\* quantified char, itself optionally followed by ?. A pattern source is the
\* sequence of its tokens.
Quantifier == {"?", "+"}

\* One compiled piece: cls the literal, lo its least repetition count, many
\* whether it repeats (+), cap whether a group captures it, gopt whether
\* the group as a whole is optional.
Piece(cls, q, cap, gopt) ==
    [cls |-> cls, lo |-> IF q = "?" THEN 0 ELSE 1, many |-> (q = "+"),
     cap |-> cap, gopt |-> gopt]

\* Regex::new on the pattern source: [ok, pieces]; ok is FALSE on a syntax
\* error (a quantifier with nothing to repeat, an unbalanced parenthesis).
RECURSIVE Regex_new(_)
Regex_new(src) ==
    IF src = << >> THEN [ok |-> TRUE, pieces |-> << >>]
    ELSE IF Head(src) \in Char
    THEN LET q == IF Len(src) >= 2 /\ src[2] \in Quantifier THEN src[2] ELSE ""
             rest == Regex_new(Suffix(src, IF q = "" THEN 2 ELSE 3))
         IN [ok |-> rest.ok,
             pieces |-> <<Piece(Head(src), q, FALSE, FALSE)>> \o rest.pieces]
    ELSE IF Head(src) = "(" /\ Len(src) >= 3 /\ src[2] \in Char
    THEN LET q == IF src[3] \in Quantifier THEN src[3] ELSE ""
             close == IF q = "" THEN 3 ELSE 4
         IN IF Len(src) >= close /\ src[close] = ")"
            THEN LET gopt == Len(src) > close /\ src[close + 1] = "?"
                     rest == Regex_new(Suffix(src, close + (IF gopt THEN 2 ELSE 1)))
                 IN [ok |-> rest.ok,
                     pieces |-> <<Piece(src[2], q, TRUE, gopt)>> \o rest.pieces]
            ELSE [ok |-> FALSE, pieces |-> << >>]
    ELSE [ok |-> FALSE, pieces |-> << >>]

\* The number of consecutive chars equal to cls in s from index pos on.
RECURSIVE RunLen(_, _, _)
RunLen(s, pos, cls) ==
    IF pos <= Len(s) /\ s[pos] = cls THEN 1 + RunLen(s, pos + 1, cls) ELSE 0

Max(S) == CHOOSE x \in S : \A y \in S : y <= x

Min(S) == CHOOSE x \in S : \A y \in S : x <= y

\* A match of the pieces against s from index pos to the end of s (the
\* pattern is compiled with a trailing $): Some(groups) with one Option per
\* capture group, or None. Quantifiers are greedy: the longest repetition
\* that lets the rest match is taken, and an optional group takes part if it
\* can.
RECURSIVE match_here(_, _, _)
match_here(pieces, s, pos) ==
    IF pieces = << >> THEN (IF pos = Len(s) + 1 THEN Some(<< >>) ELSE None)
    ELSE LET it == Head(pieces)
             run == LET r == RunLen(s, pos, it.cls)
                    IN IF it.many \/ r = 0 THEN r ELSE 1
             cand == {n \in it.lo..run : match_here(Tail(pieces), s, pos + n) # None}
         IN IF cand # {}
            THEN LET n == Max(cand)
                 IN Some((IF it.cap THEN <<Some(SubSeq(s, pos, pos + n - 1))>> ELSE << >>)
                         \o match_here(Tail(pieces), s, pos + n)[1])
            ELSE IF it.gopt /\ match_here(Tail(pieces), s, pos) # None
            THEN Some((IF it.cap THEN <<None>> ELSE << >>)
                      \o match_here(Tail(pieces), s, pos)[1])
            ELSE None

\* Regex::captures of the compiled (?:P)$ on s: the leftmost match, as
\* Some([start, groups]) with start the char index (from 1) where the match
\* begins, or None.
Regex_captures(pieces, s) ==
    LET starts == {i \in 1..(Len(s) + 1) : match_here(pieces, s, i) # None}
    IN IF starts = {} THEN None
       ELSE LET i == Min(starts)
            IN Some([start |-> i, groups |-> match_here(pieces, s, i)[1]])

\* Iterator::filter_map(|m| m): the values of the Some elements, in order.
RECURSIVE filter_map(_)
filter_map(opts) ==
    IF opts = << >> THEN << >>
    ELSE Head(opts) \o filter_map(Tail(opts))


\* ------------------------------------------------------------------ Matcher

\* Matcher::new: max_buffer_size
max_buffer_size == 256

\* char::is_whitespace() || char::is_ascii_punctuation(), the word-boundary
\* test the matcher applies to a char.
is_boundary_char(ch) == is_whitespace(ch) \/ is_ascii_punctuation(ch)

\* String::drain(..n): panics unless n is a char boundary.
String_drain_to(s, n) ==
    IF is_char_boundary(s, n)
    THEN [panic |-> FALSE, s |-> Suffix(s, CharsBefore(s, n) + 1)]
    ELSE [panic |-> TRUE, s |-> s]

\* String::truncate(new_len): no effect if new_len is past the end, panics
\* unless new_len is a char boundary.
String_truncate(s, new_len) ==
    IF new_len > str_len(s) THEN [panic |-> FALSE, s |-> s]
    ELSE IF is_char_boundary(s, new_len)
    THEN [panic |-> FALSE, s |-> Prefix(s, CharsBefore(s, new_len))]
    ELSE [panic |-> TRUE, s |-> s]

\* String::pop
String_pop(s) == IF s = << >> THEN s ELSE Prefix(s, Len(s) - 1)

\* Matcher::push_char, the variant that never drains the buffer.
push_char_no_drain(buf, ch) ==
    [panic |-> FALSE, buffer |-> Append(buf, ch),
     at_word_boundary |-> is_boundary_char(ch)]

\* Matcher::push_char: [panic, buffer, at_word_boundary].
push_char(buf, ch) ==
    LET pushed == Append(buf, ch)
        drained == IF str_len(pushed) > max_buffer_size
                   THEN String_drain_to(pushed, str_len(pushed) - max_buffer_size \div 2)
                   ELSE [panic |-> FALSE, s |-> pushed]
    IN [panic |-> drained.panic, buffer |-> drained.s,
        at_word_boundary |-> is_boundary_char(ch)]

\* Matcher::handle_backspace, the variant that leaves the buffer alone.
handle_backspace_none(buf) == buf

\* Matcher::handle_backspace, the variant that empties the buffer.
handle_backspace_all(buf) == << >>

\* Matcher::handle_backspace
handle_backspace(buf) == String_pop(buf)

\* Matcher::remove_last: [panic, s].
remove_last(buf, n) ==
    LET new_len == IF str_len(buf) >= n THEN str_len(buf) - n ELSE 0
    IN String_truncate(buf, new_len)

\* The loop of Matcher::reload over the snippets: [trie, regex_snippets].
RECURSIVE reload_loop(_, _, _)
reload_loop(snippets, t, rs) ==
    IF snippets = << >> THEN [trie |-> t, regex_snippets |-> rs]
    ELSE LET snippet == Head(snippets)
         IN IF ~snippet.enabled THEN reload_loop(Tail(snippets), t, rs)
            ELSE IF snippet.regex
            THEN reload_loop(Tail(snippets), t, Append(rs, snippet))
            ELSE reload_loop(Tail(snippets), Trie_insert(t, snippet), rs)

\* Matcher::reload: a new trie, an emptied regex list and an emptied cache,
\* then the enabled snippets in order: [trie, regex_snippets, regex_cache].
reload(snippets) ==
    LET r == reload_loop(snippets, Trie_new, << >>)
    IN [trie |-> r.trie, regex_snippets |-> r.regex_snippets, regex_cache |-> << >>]

\* matcher::MatchResult
MatchResult(snippet, typed_trigger, chars_to_delete, captures) ==
    [snippet |-> snippet, typed_trigger |-> typed_trigger,
     chars_to_delete |-> chars_to_delete, captures |-> captures]

\* The word-boundary check of the trie phase of Matcher::check_match, for a
\* trie match of the given depth: the offset is computed from the byte length
\* of the buffer and used as a char index.
trie_match_valid(buf, snippet, len) ==
    IF snippet.word_boundary
    THEN LET buffer_len == str_len(buf)
         IN IF buffer_len > len
            THEN LET char_before_start == chars_nth(buf, buffer_len - len - 1)
                 IN IF char_before_start # None
                    THEN is_boundary_char(char_before_start[1])
                    ELSE TRUE
            ELSE TRUE
    ELSE TRUE

\* Matcher::check_regex_match: [result, regex_cache, logged]; logged tells
\* whether the compile error of the pattern was logged.
check_regex_match(snippet, cache, buf) ==
    LET cached == snippet.trigger \in DOMAIN cache
        compiled == IF cached THEN [ok |-> TRUE, pieces |-> cache[snippet.trigger]]
                    ELSE Regex_new(snippet.trigger)
        cache2 == IF cached \/ ~compiled.ok THEN cache
                  ELSE cache @@ (snippet.trigger :> compiled.pieces)
    IN IF ~compiled.ok
       THEN [result |-> None, regex_cache |-> cache, logged |-> TRUE]
       ELSE LET caps == Regex_captures(compiled.pieces, buf)
            IN IF caps = None
               THEN [result |-> None, regex_cache |-> cache2, logged |-> FALSE]
               ELSE LET start == str_len(Prefix(buf, caps[1].start - 1))
                        full_match == Suffix(buf, caps[1].start)
                        char_before == IF start > 0 THEN chars_nth(buf, start - 1) ELSE None
                        captures == filter_map(caps[1].groups)
                    IN IF /\ snippet.word_boundary
                          /\ start > 0
                          /\ char_before # None
                          /\ ~is_boundary_char(char_before[1])
                       THEN [result |-> None, regex_cache |-> cache2, logged |-> FALSE]
                       ELSE [result |-> Some(MatchResult(snippet, full_match,
                                                         str_len(full_match),
                                                         IF captures = << >> THEN None
                                                         ELSE Some(captures))),
                             regex_cache |-> cache2, logged |-> FALSE]

\* The regex phase of Matcher::check_match: the regex snippets in order, up
\* to the first that matches: [result, regex_cache, logged], logged counting
\* the compile errors logged on the way. check_regex_next is the body of the
\* loop once check_regex_match has returned r for the snippet before rest.
RECURSIVE check_regex_loop(_, _, _, _), check_regex_next(_, _, _, _)
check_regex_loop(snippets, cache, buf, logged) ==
    IF snippets = << >>
    THEN [result |-> None, regex_cache |-> cache, logged |-> logged]
    ELSE check_regex_next(check_regex_match(Head(snippets), cache, buf),
                          Tail(snippets), buf, logged)

check_regex_next(r, rest, buf, logged) ==
    IF r.result # None
    THEN [result |-> r.result, regex_cache |-> r.regex_cache,
          logged |-> IF r.logged THEN logged + 1 ELSE logged]
    ELSE check_regex_loop(rest, r.regex_cache, buf,
                          IF r.logged THEN logged + 1 ELSE logged)

\* Matcher::check_match, the variant that falls back to the shortest literal
\* trigger when the longest fails its word-boundary check.
check_match_fallback(t, rs, cache, buf) ==
    LET found == find_match(t, buf)
        first == find_match_first(t, buf)
    IN IF found # None /\ trie_match_valid(buf, found[1][1], found[1][2])
       THEN [result |-> Some(MatchResult(found[1][1], found[1][1].trigger,
                                         found[1][2], None)),
             regex_cache |-> cache, logged |-> 0]
       ELSE IF first # None /\ trie_match_valid(buf, first[1][1], first[1][2])
       THEN [result |-> Some(MatchResult(first[1][1], first[1][1].trigger,
                                         first[1][2], None)),
             regex_cache |-> cache, logged |-> 0]
       ELSE check_regex_loop(rs, cache, buf, 0)

\* Matcher::check_match: the trie phase, then the regex phase:
\* [result, regex_cache, logged].
check_match(t, rs, cache, buf) ==
    LET found == find_match(t, buf)
    IN IF found # None /\ trie_match_valid(buf, found[1][1], found[1][2])
       THEN [result |-> Some(MatchResult(found[1][1], found[1][1].trigger,
                                         found[1][2], None)),
             regex_cache |-> cache, logged |-> 0]
       ELSE check_regex_loop(rs, cache, buf, 0)


\* ------------------------------------------------------------------ Expander

\* The cursor marker $|$ of builtins::find_cursor_position.
CURSOR_MARKER == <<"$", "|", "$">>

\* The token of an environment variable that is not set.
EnvUnset == "{{env:UNSET}}"

\* The token of the cursor variable.
CursorToken == "{{cursor}}"

\* The ASCII digits, in order of their value.
DigitChars == <<"0", "1", "2", "3", "4", "5", "6", "7", "8", "9">>

\* char::is_ascii_digit, the class \d of CAPTURE_REGEX on the texts of the
\* model.
is_digit(ch) == ch \in Range(DigitChars)

\* The value of a digit.
DigitValue(ch) == (CHOOSE i \in DOMAIN DigitChars : DigitChars[i] = ch) - 1

\* str::parse::<usize> on a run of digits (the runs of the model are far
\* shorter than the twenty digits that overflow usize).
RECURSIVE parse_usize(_)
parse_usize(digits) ==
    IF digits = << >> THEN 0
    ELSE 10 * parse_usize(Prefix(digits, Len(digits) - 1))
         + DigitValue(digits[Len(digits)])

\* ------------------------------------------------------------------ u64

\* A u64 is the sequence of its four 16-bit limbs, the lowest first.
Limb == 65536

\* A number below 2^16 as a u64.
u64(n) == <<n, 0, 0, 0>>

\* x * 10 on u64: the wrapped product and whether it overflowed.
u64_mul10(x) ==
    LET v1 == x[1] * 10
        v2 == x[2] * 10 + v1 \div Limb
        v3 == x[3] * 10 + v2 \div Limb
        v4 == x[4] * 10 + v3 \div Limb
    IN [value |-> <<v1 % Limb, v2 % Limb, v3 % Limb, v4 % Limb>>,
        overflow |-> v4 \div Limb > 0]

\* acc * 10^e on u64, acc and the result being [value, overflow]: the value
\* wrapped modulo 2^64 as a build without overflow checks computes it,
\* overflow telling whether a multiplication overflowed. A product that has
\* become zero stays zero.
RECURSIVE u64_pow10_from(_, _)
u64_pow10_from(acc, e) ==
    IF e = 0 \/ acc.value = u64(0) THEN acc
    ELSE LET m == u64_mul10(acc.value)
         IN u64_pow10_from([value |-> m.value, overflow |-> acc.overflow \/ m.overflow],
                           e - 1)

\* 10_u64.pow(e): [value, overflow] (up to e = 20 the squarings of u64::pow
\* overflow only when the result does).
u64_pow10(e) == u64_pow10_from([value |-> u64(1), overflow |-> FALSE], e)

\* x < y on u64
u64_lt(x, y) ==
    \E i \in 1..4 : x[i] < y[i] /\ \A j \in (i + 1)..4 : x[j] = y[j]

\* x - 1 on u64, for x > 0
u64_dec(x) ==
    LET i == CHOOSE k \in 1..4 : x[k] > 0 /\ \A j \in 1..(k - 1) : x[j] = 0
    IN [k \in 1..4 |-> IF k < i THEN Limb - 1 ELSE IF k = i THEN x[k] - 1 ELSE x[k]]

\* x / 10 and x % 10 on u64: [quot, rem]
u64_divmod10(x) ==
    LET c4 == x[4]
        c3 == (c4 % 10) * Limb + x[3]
        c2 == (c3 % 10) * Limb + x[2]
        c1 == (c2 % 10) * Limb + x[1]
    IN [quot |-> <<c1 \div 10, c2 \div 10, c3 \div 10, c4 \div 10>>, rem |-> c1 % 10]

\* The decimal digits of a u64, none for zero.
RECURSIVE u64_digits(_)
u64_digits(x) ==
    IF x = u64(0) THEN << >>
    ELSE u64_digits(u64_divmod10(x).quot) \o <<DigitChars[u64_divmod10(x).rem + 1]>>

\* format!("{:0width$}", num, width = digits): the decimal digits of num,
\* padded with zeros on the left up to width chars.
format_zero_padded(num, width) ==
    LET d == IF num = u64(0) THEN <<"0">> ELSE u64_digits(num)
    IN [i \in 1..(IF Len(d) < width THEN width - Len(d) ELSE 0) |-> "0"] \o d

\* ------------------------------------------------------------------ variables

\* str::trim: without the whitespace at both ends.
RECURSIVE trim(_)
trim(s) ==
    IF s # << >> /\ is_whitespace(Head(s)) THEN trim(Tail(s))
    ELSE IF s # << >> /\ is_whitespace(s[Len(s)]) THEN trim(Prefix(s, Len(s) - 1))
    ELSE s

\* str::strip_prefix: the Option of the rest of s after the prefix.
strip_prefix(s, prefix) ==
    IF Len(prefix) <= Len(s) /\ Prefix(s, Len(prefix)) = prefix
    THEN Some(Suffix(s, Len(prefix) + 1))
    ELSE None

\* The prefix random: of expand_single_variable.
RandomPrefix == <<"r", "a", "n", "d", "o", "m", ":">>

\* What the run of a random token depends on besides its text: the number
\* gen_range draws, the lowest or the highest of its range, and whether the
\* build checks arithmetic overflow (a debug build) or wraps (a release
\* build).
Rngs == [sample : {"low", "high"}, build : {"debug", "release"}]

\* The Result of a function of builtins.rs: Ok(text), Err, or a panic.
Ok(text) == [ok |-> TRUE, text |-> text, panic |-> FALSE]
Err == [ok |-> FALSE, text |-> << >>, panic |-> FALSE]
Panic == [ok |-> FALSE, text |-> << >>, panic |-> TRUE]

\* builtins::expand_random on the text after random: (a run of digits, or
\* chars that do not parse as a number). 10_u64.pow panics on overflow in a
\* build that checks it and wraps otherwise; gen_range panics on an empty
\* range.
expand_random(n, rng) ==
    IF n = << >> \/ \E i \in DOMAIN n : ~is_digit(n[i]) THEN Err
    ELSE LET digits == parse_usize(n)
         IN IF digits = 0 \/ digits > 20 THEN Err
            ELSE LET low == IF digits = 1 THEN [value |-> u64(0), overflow |-> FALSE]
                            ELSE u64_pow10(digits - 1)
                     high == u64_pow10(digits)
                     min == low.value
                     max == high.value
                     num == IF rng.sample = "low" THEN min ELSE u64_dec(max)
                 IN IF (low.overflow \/ high.overflow) /\ rng.build = "debug"
                    THEN Panic
                    ELSE IF ~u64_lt(min, max) THEN Panic
                    ELSE Ok(format_zero_padded(num, digits))

\* The content of the env token of a variable that is not set, and of the
\* cursor token, each written as one element of a text.
EnvUnsetContent == <<"env:UNSET">>
CursorContent == <<"cursor">>

\* builtins::expand_single_variable on the content of a token (the chars
\* between the braces): the custom variables are Null, env:UNSET fails
\* (std::env::var returns Err), cursor and | yield the marker, random:N is
\* expand_random, and any other content is an unknown variable, written back
\* between braces. The texts of the model hold no date, time, clipboard,
\* shell or uuid token.
expand_single_variable(content, rng) ==
    LET var == trim(content)
    IN IF var = EnvUnsetContent THEN Err
       ELSE IF var = CursorContent \/ var = <<"|">> THEN Ok(CURSOR_MARKER)
       ELSE IF strip_prefix(var, RandomPrefix) # None
       THEN expand_random(trim(strip_prefix(var, RandomPrefix)[1]), rng)
       ELSE Ok(<<"{", "{">> \o var \o <<"}", "}">>)

\* The index of the first } of text from index pos on, Len(text) + 1 if none.
RECURSIVE first_close(_, _)
first_close(text, pos) ==
    IF pos > Len(text) \/ text[pos] = "}" THEN pos ELSE first_close(text, pos + 1)

\* VARIABLE_REGEX at index pos of text: the Option of [len, content] of the
\* match of \{\{([^}]+)\}\} that starts there. A token written as one
\* element matches as a whole.
variable_match(text, pos) ==
    IF text[pos] = EnvUnset THEN Some([len |-> 1, content |-> EnvUnsetContent])
    ELSE IF text[pos] = CursorToken THEN Some([len |-> 1, content |-> CursorContent])
    ELSE IF /\ pos + 1 <= Len(text)
            /\ text[pos] = "{"
            /\ text[pos + 1] = "{"
    THEN LET close == first_close(text, pos + 2)
         IN IF /\ close > pos + 2
               /\ close + 1 <= Len(text)
               /\ text[close + 1] = "}"
            THEN Some([len |-> close + 2 - pos,
                       content |-> SubSeq(text, pos + 2, close - 1)])
            ELSE None
    ELSE None

\* builtins::expand_variables from index pos of the text on: the tokens
\* VARIABLE_REGEX.captures_iter finds, from the left and without overlap,
\* are replaced; the first token that fails ends the expansion.
RECURSIVE expand_variables_from(_, _, _)
expand_variables_from(text, pos, rng) ==
    IF pos > Len(text) THEN Ok(<< >>)
    ELSE LET m == variable_match(text, pos)
         IN IF m = None
            THEN LET rest == expand_variables_from(text, pos + 1, rng)
                 IN IF rest.ok THEN Ok(<<text[pos]>> \o rest.text) ELSE rest
            ELSE LET replacement == expand_single_variable(m[1].content, rng)
                 IN IF ~replacement.ok THEN replacement
                    ELSE LET rest == expand_variables_from(text, pos + m[1].len, rng)
                         IN IF rest.ok THEN Ok(replacement.text \o rest.text)
                            ELSE rest

\* builtins::expand_variables: [ok, text, panic]
expand_variables_with(text, rng) ==
    LET r == expand_variables_from(text, 1, rng)
    IN IF r.ok THEN r ELSE [r EXCEPT !.text = text]

\* builtins::expand_variables on a text without random token, where the
\* outcome depends on the text alone.
expand_variables(text) ==
    expand_variables_with(text, [sample |-> "low", build |-> "release"])

\* str::find(CURSOR_MARKER): the char indices where the marker starts.
MarkerStarts(text) ==
    {i \in 1..Len(text) : i + 2 <= Len(text) /\ SubSeq(text, i, i + 2) = CURSOR_MARKER}

\* builtins::find_cursor_position, the variant that reports the offset of
\* the marker from the end of the cleaned text.
find_cursor_position_from_end(text) ==
    IF MarkerStarts(text) = {} THEN [text |-> text, pos |-> None]
    ELSE LET i == Min(MarkerStarts(text))
         IN [text |-> Prefix(text, i - 1) \o Suffix(text, i + 3),
             pos |-> Some(str_len(Suffix(text, i + 3)))]

\* builtins::find_cursor_position: [text, pos], pos the Option of the byte
\* offset of the first marker, text without that marker.
find_cursor_position(text) ==
    IF MarkerStarts(text) = {} THEN [text |-> text, pos |-> None]
    ELSE LET i == Min(MarkerStarts(text))
         IN [text |-> Prefix(text, i - 1) \o Suffix(text, i + 3),
             pos |-> Some(str_len(Prefix(text, i - 1)))]

\* The number of consecutive digits in s from index pos on.
RECURSIVE DigitRun(_, _)
DigitRun(s, pos) ==
    IF pos <= Len(s) /\ is_digit(s[pos]) THEN 1 + DigitRun(s, pos + 1) ELSE 0

\* CAPTURE_REGEX.captures_iter(text) from index pos on: the texts of the
\* successive non-overlapping matches of \$(\d+), each a $ and the longest
\* run of digits after it.
RECURSIVE captures_iter(_, _)
captures_iter(text, pos) ==
    IF pos > Len(text) THEN << >>
    ELSE IF text[pos] = "$" /\ DigitRun(text, pos + 1) > 0
    THEN <<SubSeq(text, pos, pos + DigitRun(text, pos + 1))>>
         \o captures_iter(text, pos + DigitRun(text, pos + 1) + 1)
    ELSE captures_iter(text, pos + 1)

\* str::replace(from, to): every non-overlapping occurrence of from, found
\* from the left, is replaced by to.
RECURSIVE str_replace(_, _, _)
str_replace(s, from, to) ==
    IF Len(s) < Len(from) THEN s
    ELSE IF Prefix(s, Len(from)) = from
    THEN to \o str_replace(Suffix(s, Len(from) + 1), from, to)
    ELSE <<Head(s)>> \o str_replace(Tail(s), from, to)

\* The loop of expander::replace_captures over the markers found in the
\* original text: caps the matches still to handle, result the text so far.
RECURSIVE replace_captures_loop(_, _, _)
replace_captures_loop(result, caps, captures) ==
    IF caps = << >> THEN result
    ELSE LET full_match == Head(caps)
             index == parse_usize(Tail(full_match))
         IN replace_captures_loop(
                IF index > 0 /\ index <= Len(captures)
                THEN str_replace(result, full_match, captures[index])
                ELSE result,
                Tail(caps), captures)

\* expander::replace_captures
replace_captures(text, captures) ==
    replace_captures_loop(text, captures_iter(text, 1), captures)

\* The replacement with the first of its lowercase letters uppercased.
RECURSIVE uppercase_first_lower(_)
uppercase_first_lower(s) ==
    IF s = << >> THEN << >>
    ELSE IF is_lowercase(Head(s)) THEN to_uppercase(Head(s)) \o Tail(s)
    ELSE <<Head(s)>> \o uppercase_first_lower(Tail(s))

\* builtins::propagate_case, the variant whose title case uppercases the
\* first lowercase letter of the replacement, wherever it stands.
propagate_case_first_lower(trigger, replacement) ==
    IF trigger = << >> \/ replacement = << >> THEN replacement
    ELSE LET first_char == trigger[1]
             letters == {i \in DOMAIN trigger : is_alphabetic(trigger[i])}
             is_all_upper == \A i \in letters : is_uppercase(trigger[i])
             is_title_case ==
                 /\ is_uppercase(first_char)
                 /\ \A i \in letters : i > 1 => is_lowercase(trigger[i])
         IN IF is_all_upper /\ letters # {}
            THEN str_to_uppercase(replacement)
            ELSE IF is_title_case
            THEN uppercase_first_lower(replacement)
            ELSE replacement

\* builtins::propagate_case
propagate_case(trigger, replacement) ==
    IF trigger = << >> \/ replacement = << >> THEN replacement
    ELSE LET first_char == trigger[1]
             letters == {i \in DOMAIN trigger : is_alphabetic(trigger[i])}
             is_all_upper == \A i \in letters : is_uppercase(trigger[i])
             is_title_case ==
                 /\ is_uppercase(first_char)
                 /\ \A i \in letters : i > 1 => is_lowercase(trigger[i])
         IN IF is_all_upper /\ letters # {}
            THEN str_to_uppercase(replacement)
            ELSE IF is_title_case
            THEN to_uppercase(Head(replacement)) \o Tail(replacement)
            ELSE replacement

\* expander::expand_match, the variant that records the position of the
\* marker from the start of the text and does so whatever cursor_position is.
expand_match_from_start(m) ==
    LET replaced == IF m.captures # None
                    THEN replace_captures(m.snippet.replace, m.captures[1])
                    ELSE m.snippet.replace
        expanded == expand_variables(replaced)
        cur == find_cursor_position(expanded.text)
    IN [ok |-> expanded.ok, panic |-> expanded.panic,
        expansion |-> [text |-> cur.text, delete_count |-> m.chars_to_delete,
                       cursor_offset |-> cur.pos],
        cursor_call |-> [arg |-> expanded.text, ret |-> cur]]

\* expander::expand_match: [ok, panic, expansion, cursor_call], the expansion an
\* ExpansionResult, cursor_call the argument and the result of the call of
\* find_cursor_position. The snippets are built by Snippet::new, whose
\* propagate_case is false, so step 3 leaves the text as it is.
expand_match(m) ==
    LET replaced == IF m.captures # None
                    THEN replace_captures(m.snippet.replace, m.captures[1])
                    ELSE m.snippet.replace
        expanded == expand_variables(replaced)
        cur == find_cursor_position(expanded.text)
        cursor_offset == IF m.snippet.cursor_position /\ cur.pos # None
                         THEN Some(str_len(cur.text) - cur.pos[1])
                         ELSE None
    IN [ok |-> expanded.ok, panic |-> expanded.panic,
        expansion |-> [text |-> cur.text, delete_count |-> m.chars_to_delete,
                       cursor_offset |-> cursor_offset],
        cursor_call |-> [arg |-> expanded.text, ret |-> cur]]

\* ------------------------------------------------------------------ Output

\* The delay ExpansionEngine::new hands to OutputEngine::new.
keystroke_delay == 12

\* OutputEngine::type_text on a text that is not empty: the call
\* ydotool type --key-delay <keystroke_delay> -- <text>.
type_text(text) ==
    [text |-> text, cmd |-> "type", key_delay |-> keystroke_delay]

\* OutputEngine::output_expansion, the variant that types the text before
\* it sends the backspaces.
output_calls_text_first(e) ==
    (IF e.text # << >> THEN <<type_text(e.text)>> ELSE << >>)
    \o (IF e.delete_count > 0
        THEN <<[cmd |-> "key", key |-> "BackSpace", repeat |-> e.delete_count]>>
        ELSE << >>)
    \o (IF e.cursor_offset # None /\ e.cursor_offset[1] > 0
        THEN <<[cmd |-> "key", key |-> "Left", repeat |-> e.cursor_offset[1]]>>
        ELSE << >>)

\* The ydotool calls of OutputEngine::output_expansion that the expansion
\* needs, in the order they are awaited: the backspaces if delete_count > 0,
\* the text unless it is empty, the left arrows if cursor_offset > 0.
output_calls(e) ==
    (IF e.delete_count > 0
     THEN <<[cmd |-> "key", key |-> "BackSpace", repeat |-> e.delete_count]>>
     ELSE << >>)
    \o (IF e.text # << >> THEN <<type_text(e.text)>> ELSE << >>)
    \o (IF e.cursor_offset # None /\ e.cursor_offset[1] > 0
        THEN <<[cmd |-> "key", key |-> "Left", repeat |-> e.cursor_offset[1]]>>
        ELSE << >>)

\* ------------------------------------------------------------------ Config

\* schema::default_layout
default_layout == "qwerty"

\* schema::default_keystroke_delay
default_keystroke_delay == 12

\* schema::Settings, with the two switches the claims are about: enabled and
\* delete_trigger (both true by default), the layout and keystroke_delay_ms.
Settings(enabled_flag, delete_trigger) ==
    [enabled |-> enabled_flag, delete_trigger |-> delete_trigger,
     layout |-> default_layout, keystroke_delay_ms |-> default_keystroke_delay]

\* schema::SnippetNode::Snippet
SnippetNode_Snippet(s) == [snippet |-> s, kind |-> "Snippet"]

\* schema::SnippetNode::Folder (the folder's name is never read)
SnippetNode_Folder(items, enabled) ==
    [enabled |-> enabled, kind |-> "Folder", items |-> items]

\* ConfigManager::flatten_recursive, the variant that descends into every
\* folder, enabled or not.
RECURSIVE flatten_recursive_all_folders(_)
flatten_recursive_all_folders(nodes) ==
    IF nodes = << >> THEN << >>
    ELSE LET node == Head(nodes)
             here == IF node.kind = "Snippet"
                     THEN (IF node.snippet.enabled THEN <<node.snippet>> ELSE << >>)
                     ELSE flatten_recursive_all_folders(node.items)
         IN here \o flatten_recursive_all_folders(Tail(nodes))

\* ConfigManager::flatten_recursive, as the sequence it appends to result.
RECURSIVE flatten_recursive(_)
flatten_recursive(nodes) ==
    IF nodes = << >> THEN << >>
    ELSE LET node == Head(nodes)
             here == IF node.kind = "Snippet"
                     THEN (IF node.snippet.enabled THEN <<node.snippet>> ELSE << >>)
                     ELSE (IF node.enabled THEN flatten_recursive(node.items) ELSE << >>)
         IN here \o flatten_recursive(Tail(nodes))

\* ConfigManager::flatten_snippets
flatten_snippets(nodes) == flatten_recursive(nodes)

\* ------------------------------------------------------------------ state

VARIABLES
    buffer,            \* Matcher.buffer
    at_word_boundary,  \* Matcher.at_word_boundary
    trie,              \* Matcher.trie
    regex_snippets,    \* Matcher.regex_snippets
    regex_cache,       \* Matcher.regex_cache: pattern source -> compiled regex
    match_result,      \* the Option<MatchResult> of the last check_match
    pre_buffer,        \* the buffer that check_match looked at
    loaded,            \* the snippet vector of the last Matcher::reload
    read_snippets,     \* config.snippets as the engine read it for that reload
    typed,             \* number of chars and keys fed since the initial state
    pc,                \* where the owner of the matcher is
    config,            \* the shared Arc<RwLock<Config>> of main
    enabled,           \* the shared Arc<RwLock<bool>> of main
    event_rx,          \* the KeyboardEvent channel, oldest first
    reload_rx,         \* the number of signals in the reload channel
    mgr_config,        \* ConfigManager.config
    config_rx,         \* the channel from the file watcher to main
    pending,           \* the ydotool calls output_expansion has yet to make
    emitted,           \* the ydotool calls of the last expansion, with their outcome
    step,              \* what the engine did last
    expansion,         \* the Option of the ExpansionResult of the last expand_match
    cursor_call,       \* the last call of find_cursor_position: Option of [arg, ret]
    builtin_call,      \* the Option of a call of a function of builtins.rs, with its result
    monitor,           \* the locals of KeyboardMonitor::run, with the raw event it took last
    sent_order,        \* the channels of the messages in flight to the engine, oldest first
    event_tx_alive,    \* a sender of the KeyboardEvent channel exists
    reload_tx_alive,   \* a sender of the reload channel exists
    regex_errors,      \* "Invalid regex pattern" lines logged since the last Matcher::reload
    screen             \* the text the user sees of the keys typed into the matcher

engine_vars == <<config, enabled, event_rx, reload_rx, mgr_config, config_rx,
                 pending, emitted, step, sent_order>>

\* What no step of the matcher, the engine or the tasks of main writes.
other_vars == <<builtin_call, monitor, event_tx_alive, reload_tx_alive, screen>>

\* The device nodes of /dev/input the model follows, and what a node is.
Paths == {"event0", "event1"}

NodeKinds == {"absent", "keyboard", "other"}

\* KeyboardMonitor::run before its loop: no modifier is held, no layout is
\* read yet, no raw event was taken; no device is admitted and no create
\* notification waits. Next to the locals of run the record holds what run
\* works on: the nodes of /dev/input, the Shift keys physically down, the
\* reader threads started per path and the paths with a reader that still
\* reads its device.
monitor_start ==
    [shift_pressed |-> FALSE, caps_lock |-> FALSE, current_layout |-> "",
     raw |-> None, map_call |-> None, sent |-> << >>,
     held |-> {}, nodes |-> [p \in Paths |-> "absent"],
     monitored_paths |-> {}, spawned |-> [p \in Paths |-> 0],
     reading |-> {}, watcher_rx |-> << >>, plugs |-> 0]

vars == <<buffer, at_word_boundary, trie, regex_snippets, regex_cache,
          match_result, pre_buffer, loaded, read_snippets, typed, pc,
          config, enabled, event_rx, reload_rx, mgr_config, config_rx,
          pending, emitted, step, expansion, cursor_call,
          builtin_call, monitor, sent_order, event_tx_alive, reload_tx_alive,
          regex_errors, screen>>

\* The variables the senders of the two channels leave alone when they are
\* dropped.
pipeline_vars_but_senders ==
    <<buffer, at_word_boundary, trie, regex_snippets, regex_cache, match_result,
      pre_buffer, loaded, read_snippets, typed, pc, config, enabled, event_rx,
      reload_rx, mgr_config, config_rx, pending, emitted, step, expansion,
      cursor_call, sent_order, regex_errors, screen>>

\* ------------------------------------------------- the matcher on its own

\* The regex triggers: a+ and (a)?; and the pattern (a that does not compile.
RegexTriggers == {<<"a", "+">>, <<"(", "a", ")", "?", ";">>, <<"(", "a">>}

SnippetPool ==
    {Snippet(t, <<"x">>, wb, FALSE, TRUE) : t \in {<<"a">>, <<";", "a">>}, wb \in BOOLEAN}
    \cup {Snippet(t, <<"x">>, FALSE, FALSE, TRUE) : t \in {<<"é">>, <<"a", "é">>}}
    \cup {Snippet(<<"a">>, <<"x">>, FALSE, FALSE, FALSE)}
    \cup {Snippet(t, <<"x">>, FALSE, TRUE, TRUE) : t \in RegexTriggers}

\* Matcher::new
MatcherInit ==
    /\ buffer = << >>
    /\ at_word_boundary = TRUE
    /\ trie = Trie_new
    /\ regex_snippets = << >>
    /\ regex_cache = << >>
    /\ match_result = None
    /\ pre_buffer = << >>
    /\ loaded = << >>
    /\ read_snippets = << >>
    /\ typed = 0
    /\ pc = "new"
    /\ config = [snippets |-> << >>, settings |-> Settings(TRUE, TRUE)]
    /\ enabled = TRUE
    /\ event_rx = << >>
    /\ reload_rx = 0
    /\ mgr_config = config
    /\ config_rx = << >>
    /\ pending = << >>
    /\ emitted = << >>
    /\ step = "none"
    /\ expansion = None
    /\ cursor_call = None
    /\ builtin_call = None
    /\ monitor = monitor_start
    /\ sent_order = << >>
    /\ event_tx_alive = TRUE
    /\ reload_tx_alive = TRUE
    /\ screen = << >>
    /\ regex_errors = 0

\* matcher.reload(snippets), on the matcher just constructed
MReload(snippets) ==
    /\ regex_errors' = 0
    /\ UNCHANGED other_vars
    /\ pc = "new"
    /\ pc' = "idle"
    /\ LET r == reload(snippets)
       IN /\ trie' = r.trie
          /\ regex_snippets' = r.regex_snippets
          /\ regex_cache' = r.regex_cache
    /\ loaded' = snippets
    /\ UNCHANGED <<buffer, at_word_boundary, match_result, pre_buffer, typed,
                   read_snippets>>
    /\ UNCHANGED engine_vars
    /\ UNCHANGED <<expansion, cursor_call>>

\* matcher.push_char(ch)
MPushChar(ch) ==
    /\ UNCHANGED regex_errors
    /\ UNCHANGED other_vars
    /\ pc = "idle"
    /\ typed < MaxTyped
    /\ typed' = typed + 1
    /\ LET r == push_char(buffer, ch)
       IN /\ buffer' = r.buffer
          /\ at_word_boundary' = r.at_word_boundary
          /\ pc' = IF r.panic THEN "panicked" ELSE "idle"
    /\ UNCHANGED <<trie, regex_snippets, regex_cache, match_result, pre_buffer, loaded, read_snippets>>
    /\ UNCHANGED engine_vars
    /\ UNCHANGED <<expansion, cursor_call>>

\* matcher.check_match() and, on a match, matcher.remove_last(chars_to_delete),
\* as ExpansionEngine::check_and_expand calls them.
MCheckMatch ==
    /\ UNCHANGED other_vars
    /\ pc = "idle"
    /\ \E m \in {check_match(trie, regex_snippets, regex_cache, buffer)} :
       \E r \in {IF m.result = None THEN [panic |-> FALSE, s |-> buffer]
                 ELSE remove_last(buffer, m.result[1].chars_to_delete)} :
          /\ match_result' = m.result
          /\ regex_cache' = m.regex_cache
          /\ pre_buffer' = buffer
          /\ buffer' = r.s
          /\ pc' = IF r.panic THEN "panicked" ELSE "checked"
          /\ regex_errors' = regex_errors + m.logged
    /\ UNCHANGED <<at_word_boundary, trie, regex_snippets, loaded, read_snippets, typed>>
    /\ UNCHANGED engine_vars
    /\ UNCHANGED <<expansion, cursor_call>>

\* expand_match(&match_result, &variables) on the match check_match
\* returned, as ExpansionEngine::check_and_expand and the unit tests of
\* expander.rs call it.
MExpand ==
    /\ UNCHANGED regex_errors
    /\ UNCHANGED other_vars
    /\ pc = "checked"
    /\ match_result # None
    /\ \E e \in {expand_match(match_result[1])} :
          IF e.ok
          THEN /\ expansion' = Some(e.expansion)
               /\ cursor_call' = Some(e.cursor_call)
               /\ pc' = "expanded"
          ELSE /\ pc' = IF e.panic THEN "panicked" ELSE "expand_failed"
               /\ UNCHANGED <<expansion, cursor_call>>
    /\ UNCHANGED <<buffer, at_word_boundary, trie, regex_snippets, regex_cache,
                   match_result, pre_buffer, loaded, read_snippets, typed>>
    /\ UNCHANGED engine_vars

MatcherNext ==
    \/ \E snippets \in SeqsUpTo(SnippetPool, MaxSnippets) : MReload(snippets)
    \/ \E ch \in Char : MPushChar(ch)
    \/ MCheckMatch

\* The snippets with triggers that need no char: the empty literal trigger,
\* the empty pattern and the pattern a? (with and without word_boundary),
\* next to the literal trigger a.
EmptyPool ==
    {Snippet(<< >>, <<"x">>, FALSE, regex, TRUE) : regex \in BOOLEAN}
    \cup {Snippet(<<"a", "?">>, <<"x">>, wb, TRUE, TRUE) : wb \in BOOLEAN}
    \cup {Snippet(<<"a">>, <<"x">>, FALSE, FALSE, TRUE)}

EmptyNext ==
    \/ \E snippets \in SeqsUpTo(EmptyPool, MaxSnippets) : MReload(snippets)
    \/ \E ch \in Char : MPushChar(ch)
    \/ MCheckMatch

\* The matcher under triggers that can match without a char.
SpecEmpty == MatcherInit /\ [][EmptyNext]_vars

\* A character key is typed into a field: the field shows the char and the
\* matcher takes it.
TypeChar(ch) ==
    /\ UNCHANGED regex_errors
    /\ UNCHANGED <<builtin_call, monitor, event_tx_alive, reload_tx_alive>>
    /\ pc = "idle"
    /\ typed < MaxTyped
    /\ typed' = typed + 1
    /\ screen' = Append(screen, ch)
    /\ LET r == push_char(buffer, ch)
       IN /\ buffer' = r.buffer
          /\ at_word_boundary' = r.at_word_boundary
          /\ pc' = IF r.panic THEN "panicked" ELSE "idle"
    /\ UNCHANGED <<trie, regex_snippets, regex_cache, match_result, pre_buffer, loaded, read_snippets>>
    /\ UNCHANGED engine_vars
    /\ UNCHANGED <<expansion, cursor_call>>

\* Backspace is pressed: the field loses its last char, if it has one, and
\* the matcher runs handle_backspace.
TypeBackspace ==
    /\ UNCHANGED regex_errors
    /\ UNCHANGED <<builtin_call, monitor, event_tx_alive, reload_tx_alive>>
    /\ pc = "idle"
    /\ screen' = IF screen = << >> THEN << >> ELSE SubSeq(screen, 1, Len(screen) - 1)
    /\ buffer' = handle_backspace(buffer)
    /\ UNCHANGED <<at_word_boundary, trie, regex_snippets, regex_cache,
                   match_result, pre_buffer, loaded, read_snippets, typed, pc>>
    /\ UNCHANGED engine_vars
    /\ UNCHANGED <<expansion, cursor_call>>

BackspaceNext ==
    \/ \E snippets \in SeqsUpTo(SnippetPool, MaxSnippets) : MReload(snippets)
    \/ \E ch \in Char : TypeChar(ch)
    \/ TypeBackspace
    \/ MCheckMatch

\* The matcher driven as test_backspace drives it: chars and backspaces,
\* then check_match.
SpecBackspace == MatcherInit /\ [][BackspaceNext]_vars

\* The matcher driven directly, as the unit tests of matcher.rs drive it:
\* Matcher::new, reload, push_char for each char of a string, check_match.
SpecMatcher == MatcherInit /\ [][MatcherNext]_vars


\* The snippets loaded into the trie on its own: three triggers, each a
\* proper suffix of the next, and a second snippet for one of them.
TriePool ==
    {Snippet(t, <<"x">>, FALSE, FALSE, TRUE) : t \in {<<"a">>, <<";", "a">>, <<"a", ";", "a">>}}
    \cup {Snippet(<<";", "a">>, <<"x">>, TRUE, FALSE, TRUE)}

TrieNext ==
    \/ \E snippets \in SeqsUpTo(TriePool, MaxInserts) : MReload(snippets)
    \/ \E ch \in Char : MPushChar(ch)
    \/ MCheckMatch

\* The trie under vectors of overlapping literal triggers, as the unit tests
\* of trie.rs drive it.
SpecTrie == MatcherInit /\ [][TrieNext]_vars

\* The regex snippets loaded into the matcher on its own: a+ with and
\* without the word-boundary requirement, (a) whose replacement is its
\* capture, (a)?(;) whose first group is optional, with replacements that
\* name the second group or both, a disabled a+ and the pattern (a that does
\* not compile.
RegexPool ==
    {Snippet(<<"a", "+">>, <<"x">>, wb, TRUE, TRUE) : wb \in BOOLEAN}
    \cup {Snippet(<<"(", "a", ")">>, <<"$", "1">>, FALSE, TRUE, TRUE)}
    \cup {Snippet(<<"(", "a", ")", "?", "(", ";", ")">>, r, FALSE, TRUE, TRUE) :
             r \in {<<"$", "2">>, <<"$", "1", "y", "$", "2">>}}
    \cup {Snippet(<<"a", "+">>, <<"y">>, FALSE, TRUE, FALSE)}
    \cup {Snippet(<<"(", "a">>, <<"x">>, FALSE, TRUE, TRUE)}

\* matcher.reload(snippets) at any time between two operations.
RReload(snippets) ==
    /\ regex_errors' = 0
    /\ UNCHANGED other_vars
    /\ pc \in {"new", "idle", "checked", "expanded", "expand_failed"}
    /\ pc' = "idle"
    /\ LET r == reload(snippets)
       IN /\ trie' = r.trie
          /\ regex_snippets' = r.regex_snippets
          /\ regex_cache' = r.regex_cache
    /\ loaded' = snippets
    /\ UNCHANGED <<buffer, at_word_boundary, match_result, pre_buffer, typed,
                   read_snippets>>
    /\ UNCHANGED engine_vars
    /\ UNCHANGED <<expansion, cursor_call>>

RegexNext ==
    \/ \E snippets \in SeqsUpTo(RegexPool, MaxSnippets) : RReload(snippets)
    \/ \E ch \in Char : MPushChar(ch)
    \/ MCheckMatch
    \/ MExpand

\* The matcher under vectors of regex snippets and any history of reloads,
\* with the expansion of each match, as the unit tests of matcher.rs and
\* expander.rs drive them.
SpecRegex == MatcherInit /\ [][RegexNext]_vars

\* The elements of the replace texts of the hand-built matches with
\* captures: the chars of the capture markers and a two-byte letter.
CaptureAlphabet == {"$", "1", "0", "é"}

\* The elements of the replace texts of the hand-built matches without
\* captures: the chars of the cursor marker, the cursor token and a two-byte
\* letter.
CursorAlphabet == {"$", "|", "é", CursorToken}

\* The capture vectors of the hand-built matches: one or two captures, and a
\* capture whose own text is a marker.
CaptureVectors ==
    {<< <<"a">> >>, << <<"$", "0">> >>, << <<"a">>, <<";">> >>}

\* The MatchResults the unit tests of expander.rs build by hand: a literal
\* match with or without cursor_position, or a regex match with captures.
HandBuiltMatches ==
    {MatchResult(IF cp THEN with_cursor_position(Snippet(<<"a">>, text, FALSE, FALSE, TRUE))
                 ELSE Snippet(<<"a">>, text, FALSE, FALSE, TRUE),
                 <<"a">>, 1, None) :
        text \in SeqsUpTo(CursorAlphabet, MaxText), cp \in BOOLEAN}
    \cup {MatchResult(Snippet(<<"(", "a", ")">>, text, FALSE, TRUE, TRUE),
                      <<"a">>, 1, Some(captures)) :
             text \in SeqsUpTo(CaptureAlphabet, MaxText), captures \in CaptureVectors}

\* A MatchResult built by hand, about to be handed to expand_match.
ExpanderInit ==
    /\ buffer = << >>
    /\ at_word_boundary = TRUE
    /\ trie = Trie_new
    /\ regex_snippets = << >>
    /\ regex_cache = << >>
    /\ match_result \in {Some(m) : m \in HandBuiltMatches}
    /\ pre_buffer = << >>
    /\ loaded = << >>
    /\ read_snippets = << >>
    /\ typed = 0
    /\ pc = "checked"
    /\ config = [snippets |-> << >>, settings |-> Settings(TRUE, TRUE)]
    /\ enabled = TRUE
    /\ event_rx = << >>
    /\ reload_rx = 0
    /\ mgr_config = config
    /\ config_rx = << >>
    /\ pending = << >>
    /\ emitted = << >>
    /\ step = "none"
    /\ expansion = None
    /\ cursor_call = None
    /\ builtin_call = None
    /\ monitor = monitor_start
    /\ sent_order = << >>
    /\ event_tx_alive = TRUE
    /\ reload_tx_alive = TRUE
    /\ screen = << >>
    /\ regex_errors = 0

ExpanderNext == MExpand

\* expand_match on hand-built matches, as the unit tests of expander.rs
\* drive it.
SpecExpander == ExpanderInit /\ [][ExpanderNext]_vars

\* The ExpansionResults handed to output_expansion directly.
ExpansionResults ==
    {[text |-> t, cursor_offset |-> c, delete_count |-> d] :
        t \in {<< >>, <<"x">>, <<"x", "y">>},
        c \in {None} \cup {Some(k) : k \in 0..MaxRepeat},
        d \in 0..MaxRepeat}

\* An ExpansionResult about to be handed to output_expansion.
OutputInit ==
    /\ buffer = << >>
    /\ at_word_boundary = TRUE
    /\ trie = Trie_new
    /\ regex_snippets = << >>
    /\ regex_cache = << >>
    /\ match_result = None
    /\ pre_buffer = << >>
    /\ loaded = << >>
    /\ read_snippets = << >>
    /\ typed = 0
    /\ pc = "expanded"
    /\ config = [snippets |-> << >>, settings |-> Settings(TRUE, TRUE)]
    /\ enabled = TRUE
    /\ event_rx = << >>
    /\ reload_rx = 0
    /\ mgr_config = config
    /\ config_rx = << >>
    /\ pending = << >>
    /\ emitted = << >>
    /\ step = "none"
    /\ expansion \in {Some(e) : e \in ExpansionResults}
    /\ cursor_call = None
    /\ builtin_call = None
    /\ monitor = monitor_start
    /\ sent_order = << >>
    /\ event_tx_alive = TRUE
    /\ reload_tx_alive = TRUE
    /\ screen = << >>
    /\ regex_errors = 0

\* self.output.output_expansion(&expansion) is entered: the calls it has to
\* make, none of them made yet.
OutputExpansion ==
    /\ UNCHANGED <<sent_order, regex_errors>>
    /\ UNCHANGED other_vars
    /\ pc = "expanded"
    /\ expansion # None
    /\ pending' = output_calls(expansion[1])
    /\ emitted' = << >>
    /\ pc' = IF pending' = << >> THEN "idle" ELSE "output"
    /\ step' = "matched"
    /\ UNCHANGED <<buffer, at_word_boundary, trie, regex_snippets, regex_cache,
                   match_result, pre_buffer, loaded, read_snippets, typed,
                   config, enabled, event_rx, reload_rx, mgr_config, config_rx,
                   expansion, cursor_call>>

\* ------------------------------------------------------------------ engine

\* The configurations the config file holds at one time or another.
\* ConfigA: the snippet ;a, then an enabled folder with the word-boundary
\* snippet a (which places the cursor) and a disabled folder holding é,
\* then the snippet ;é whose replacement reads an unset variable; the file
\* sets delete_trigger to false.
ConfigA ==
    [snippets |->
        <<SnippetNode_Snippet(Snippet(<<";", "a">>, <<"x">>, FALSE, FALSE, TRUE)),
          SnippetNode_Folder(
              <<SnippetNode_Snippet(with_cursor_position(
                    Snippet(<<"a">>, <<"x", "$", "|", "$", "y">>, TRUE, FALSE, TRUE))),
                SnippetNode_Folder(
                    <<SnippetNode_Snippet(Snippet(<<"é">>, <<"x">>, FALSE, FALSE, TRUE))>>,
                    FALSE)>>,
              TRUE),
          SnippetNode_Snippet(Snippet(<<";", "é">>, <<EnvUnset>>, FALSE, FALSE, TRUE))>>,
     settings |-> Settings(TRUE, FALSE)]

\* ConfigB: a disabled folder holding ;a, the snippet é, a disabled snippet
\* a and the regex snippet a+ whose replacement reads an unset variable; the
\* global switch is off in the file and keystroke_delay_ms is OtherDelay.
ConfigB ==
    [snippets |->
        <<SnippetNode_Folder(
              <<SnippetNode_Snippet(Snippet(<<";", "a">>, <<"x">>, FALSE, FALSE, TRUE))>>,
              FALSE),
          SnippetNode_Snippet(Snippet(<<"é">>, <<"x">>, FALSE, FALSE, TRUE)),
          SnippetNode_Snippet(Snippet(<<"a">>, <<"x">>, FALSE, FALSE, FALSE)),
          SnippetNode_Snippet(Snippet(<<"a", "+">>, <<EnvUnset>>, FALSE, TRUE, TRUE))>>,
     settings |-> [Settings(FALSE, TRUE) EXCEPT !.keystroke_delay_ms = OtherDelay]]

ConfigFiles == {ConfigA, ConfigB}

\* monitor::KeyboardEvent
Character(ch) == [ch |-> ch, kind |-> "Character"]

WordBoundary(ch) == [ch |-> ch, kind |-> "WordBoundary"]

Backspace == [kind |-> "Backspace"]

Enter == [kind |-> "Enter"]

Tab == [kind |-> "Tab"]

Escape == [kind |-> "Escape"]

\* The event KeyboardMonitor::run emits for a mapped char.
char_event(ch) ==
    IF ch = " " \/ is_ascii_punctuation(ch) THEN WordBoundary(ch) ELSE Character(ch)

KeyboardEvents ==
    {char_event(ch) : ch \in Char} \cup {Backspace, Enter, Tab, Escape}

\* ------------------------------------------------------------------ keymaps

\* The keys of the model that KeyMap::new maps, each with its chars on QWERTY
\* (normal, shifted): letters, a digit, punctuation and the space bar.
qwerty_keys ==
    {<<"KEY_A", "a", "A">>, <<"KEY_Q", "q", "Q">>, <<"KEY_M", "m", "M">>,
     <<"KEY_2", "2", "@">>, <<"KEY_SEMICOLON", ";", ":">>, <<"KEY_SPACE", " ", " ">>}

MappedKeys == {k[1] : k \in qwerty_keys}

\* The base QWERTY mapping: [normal, shifted], each a map from key to char.
qwerty ==
    [normal |-> [key \in MappedKeys |-> (CHOOSE k \in qwerty_keys : k[1] = key)[2]],
     shifted |-> [key \in MappedKeys |-> (CHOOSE k \in qwerty_keys : k[1] = key)[3]]]

\* keymaps::swap_keys
swap_keys(keymap, k1, k2) ==
    [normal |-> IF k1 \in DOMAIN keymap.normal /\ k2 \in DOMAIN keymap.normal
                THEN [keymap.normal EXCEPT ![k1] = keymap.normal[k2],
                                           ![k2] = keymap.normal[k1]]
                ELSE keymap.normal,
     shifted |-> IF k1 \in DOMAIN keymap.shifted /\ k2 \in DOMAIN keymap.shifted
                 THEN [keymap.shifted EXCEPT ![k1] = keymap.shifted[k2],
                                             ![k2] = keymap.shifted[k1]]
                 ELSE keymap.shifted]

\* keymaps::setup_key, on a key the map already holds
setup_key(keymap, k, n, s) ==
    [normal |-> [keymap.normal EXCEPT ![k] = n],
     shifted |-> [keymap.shifted EXCEPT ![k] = s]]

\* keymaps::apply_azerty, on the keys of the model: A and Q are swapped, M is
\* on the semicolon key, the digit row yields its digits with Shift only.
apply_azerty(keymap) ==
    setup_key(
        setup_key(
            setup_key(swap_keys(keymap, "KEY_A", "KEY_Q"), "KEY_SEMICOLON", "m", "M"),
            "KEY_2", "é", "2"),
        "KEY_M", ",", "?")

\* KeyMap::new(layout): any layout but azerty leaves the keys of the model
\* as on QWERTY.
KeyMap_new(layout) == IF layout = "azerty" THEN apply_azerty(qwerty) ELSE qwerty

\* char::is_ascii_alphabetic, on the chars of the model
is_ascii_alphabetic(c) == c \in {"a", "A", "q", "Q", "m", "M"}

\* char::to_ascii_uppercase
to_ascii_uppercase(c) ==
    IF is_ascii_alphabetic(c) /\ is_lowercase(c) THEN to_uppercase(c)[1] ELSE c

\* char::to_ascii_lowercase
to_ascii_lowercase(c) ==
    IF is_ascii_alphabetic(c) /\ is_uppercase(c)
    THEN (CHOOSE p \in CaseTable : p[2] = <<c>>)[1]
    ELSE c

\* KeyMap::map_key: the Option of the char of the key.
map_key(keymap, key, shift, caps_lock) ==
    LET base_char == IF shift
                     THEN IF key \in DOMAIN keymap.shifted
                          THEN Some(keymap.shifted[key]) ELSE None
                     ELSE IF key \in DOMAIN keymap.normal
                          THEN Some(keymap.normal[key]) ELSE None
    IN IF base_char = None THEN None
       ELSE LET c == base_char[1]
            IN IF is_ascii_alphabetic(c) /\ caps_lock
               THEN IF shift THEN Some(to_ascii_lowercase(c))
                    ELSE Some(to_ascii_uppercase(c))
               ELSE Some(c)

\* ------------------------------------------------------------------ monitor

\* The keys of the raw events: the mapped keys, a key no layout maps, the
\* modifiers and the special keys.
ShiftKeys == {"KEY_LEFTSHIFT", "KEY_RIGHTSHIFT"}

SpecialKeys == {"KEY_BACKSPACE", "KEY_ENTER", "KEY_KPENTER", "KEY_TAB", "KEY_ESC"}

Keys == MappedKeys \cup {"KEY_F1"} \cup ShiftKeys \cup {"KEY_CAPSLOCK"} \cup SpecialKeys

\* The values of a raw event: 0 = release, 1 = press, 2 = repeat.
KeyValues == {0, 1, 2}

\* The keys of the keyboards whose Shift keys are followed.
ShiftedKeys == ShiftKeys \cup {"KEY_A", "KEY_2", "KEY_CAPSLOCK"}

\* The keys the readers of the devices send.
DeviceKeys == {"KEY_A", "KEY_LEFTSHIFT"}

\* The layouts settings.layout names in the model.
Layouts == {"qwerty", "azerty"}

\* KeyboardMonitor::run: the event of a key that is pressed (or of a
\* BACKSPACE that repeats), an Option.
key_event(keymap, key, shift, caps_lock) ==
    IF key = "KEY_BACKSPACE" THEN Some(Backspace)
    ELSE IF key \in {"KEY_ENTER", "KEY_KPENTER"} THEN Some(Enter)
    ELSE IF key = "KEY_TAB" THEN Some(Tab)
    ELSE IF key = "KEY_ESC" THEN Some(Escape)
    ELSE LET ch == map_key(keymap, key, shift, caps_lock)
         IN IF ch = None THEN None ELSE Some(char_event(ch[1]))

\* KeyboardMonitor::run with every key emitting on repeat as on press.
monitor_step_any_repeat(m, layout, key, value) ==
    LET is_press == value = 1
        is_release == value = 0
        read == [m EXCEPT !.current_layout = layout,
                          !.raw = Some([key |-> key, value |-> value]),
                          !.map_call = None,
                          !.sent = << >>]
        key_mapper == KeyMap_new(layout)
    IN IF key \in ShiftKeys THEN [read EXCEPT !.shift_pressed = is_press]
       ELSE IF key = "KEY_CAPSLOCK" /\ is_press
       THEN [read EXCEPT !.caps_lock = ~m.caps_lock]
       ELSE IF ~is_press /\ is_release THEN read
       ELSE [read EXCEPT
               !.map_call =
                   IF key \in SpecialKeys THEN None
                   ELSE Some([layout |-> layout, key |-> key,
                              shift |-> m.shift_pressed, caps_lock |-> m.caps_lock,
                              ret |-> map_key(key_mapper, key, m.shift_pressed,
                                              m.caps_lock)]),
               !.sent = key_event(key_mapper, key, m.shift_pressed, m.caps_lock)]

\* One turn of the loop of KeyboardMonitor::run on the raw event (key,
\* value), the layout being the one the configuration names: the state of
\* the monitor after it, with the event it sends, if any, in sent.
monitor_step(m, layout, key, value) ==
    LET is_press == value = 1
        is_release == value = 0
        read == [m EXCEPT !.current_layout = layout,
                          !.raw = Some([key |-> key, value |-> value]),
                          !.map_call = None,
                          !.sent = << >>]
        key_mapper == KeyMap_new(layout)
    IN IF key \in ShiftKeys THEN [read EXCEPT !.shift_pressed = is_press]
       ELSE IF key = "KEY_CAPSLOCK" /\ is_press
       THEN [read EXCEPT !.caps_lock = ~m.caps_lock]
       ELSE IF ~is_press /\ (key # "KEY_BACKSPACE" \/ is_release) THEN read
       ELSE [read EXCEPT
               !.map_call =
                   IF key \in SpecialKeys THEN None
                   ELSE Some([layout |-> layout, key |-> key,
                              shift |-> m.shift_pressed, caps_lock |-> m.caps_lock,
                              ret |-> map_key(key_mapper, key, m.shift_pressed,
                                              m.caps_lock)]),
               !.sent = key_event(key_mapper, key, m.shift_pressed, m.caps_lock)]

\* main: the state once ConfigManager::new has loaded the file, the shared
\* state is created and ExpansionEngine::new has built the engine.
Init ==
    /\ buffer = << >>
    /\ at_word_boundary = TRUE
    /\ trie = Trie_new
    /\ regex_snippets = << >>
    /\ regex_cache = << >>
    /\ match_result = None
    /\ pre_buffer = << >>
    /\ loaded = << >>
    /\ read_snippets = << >>
    /\ typed = 0
    /\ pc = "start"
    /\ config \in ConfigFiles
    /\ enabled = config.settings.enabled
    /\ event_rx = << >>
    /\ reload_rx = 0
    /\ mgr_config = config
    /\ config_rx = << >>
    /\ pending = << >>
    /\ emitted = << >>
    /\ step = "none"
    /\ expansion = None
    /\ cursor_call = None
    /\ builtin_call = None
    /\ monitor = monitor_start
    /\ sent_order = << >>
    /\ event_tx_alive = TRUE
    /\ reload_tx_alive = TRUE
    /\ screen = << >>
    /\ regex_errors = 0

\* The reload of the engine, the variant that replaces the regex list and
\* the cache but leaves the trie as it is.
LoadSnippets_keep_trie ==
    LET flattened_snippets == flatten_snippets(config.snippets)
        r == reload(flattened_snippets)
    IN /\ trie' = trie
       /\ regex_snippets' = r.regex_snippets
       /\ regex_cache' = r.regex_cache
       /\ loaded' = flattened_snippets
       /\ read_snippets' = config.snippets
       /\ regex_errors' = 0

\* The snippets of the shared configuration, flattened and handed to
\* Matcher::reload (the initial load and the reload arm of run).
LoadSnippets ==
    LET flattened_snippets == flatten_snippets(config.snippets)
        r == reload(flattened_snippets)
    IN /\ trie' = r.trie
       /\ regex_snippets' = r.regex_snippets
       /\ regex_cache' = r.regex_cache
       /\ loaded' = flattened_snippets
       /\ read_snippets' = config.snippets
       /\ regex_errors' = 0

\* ExpansionEngine::run, the initial load of the snippets.
EngineStart ==
    /\ UNCHANGED sent_order
    /\ UNCHANGED other_vars
    /\ pc = "start"
    /\ LoadSnippets
    /\ pc' = "idle"
    /\ step' = "start"
    /\ UNCHANGED <<buffer, at_word_boundary, match_result, pre_buffer, typed,
                   config, enabled, event_rx, reload_rx, mgr_config, config_rx,
                   pending, emitted, expansion, cursor_call>>

\* ExpansionEngine::run, a reload arm that is taken while output_expansion
\* awaits a run of the tool.
EngineReload_any_time ==
    /\ UNCHANGED other_vars
    /\ pc \in {"idle", "output"}
    /\ reload_rx > 0
    /\ reload_rx' = reload_rx - 1
    /\ sent_order' = RemoveFirst(sent_order, "reload")
    /\ LoadSnippets
    /\ step' = "reload"
    /\ UNCHANGED <<buffer, at_word_boundary, match_result, pre_buffer, typed, pc,
                   config, enabled, event_rx, mgr_config, config_rx,
                   pending, emitted, expansion, cursor_call>>

\* ExpansionEngine::run, the reload arm of the select.
EngineReload ==
    /\ UNCHANGED other_vars
    /\ pc = "idle"
    /\ reload_rx > 0
    /\ reload_rx' = reload_rx - 1
    /\ sent_order' = RemoveFirst(sent_order, "reload")
    /\ LoadSnippets
    /\ step' = "reload"
    /\ UNCHANGED <<buffer, at_word_boundary, match_result, pre_buffer, typed, pc,
                   config, enabled, event_rx, mgr_config, config_rx,
                   pending, emitted, expansion, cursor_call>>

\* ExpansionEngine::process_event, the variant that drops no event.
event_dropped_never(flag) == FALSE

\* ExpansionEngine::process_event: the event is dropped.
event_dropped(flag) == ~flag

\* ExpansionEngine::check_and_expand after push_char returned pushed: the
\* match, the truncation of the buffer, the expansion, and the hand-over of
\* the ydotool calls to output_expansion.
CheckAndExpand(pushed) ==
    \E m \in {check_match(trie, regex_snippets, regex_cache, pushed)} :
       /\ match_result' = m.result
       /\ regex_cache' = m.regex_cache
       /\ regex_errors' = regex_errors + m.logged
       /\ pre_buffer' = pushed
       /\ IF m.result = None
          THEN /\ buffer' = pushed
               /\ pc' = "idle"
               /\ step' = "pushed"
               /\ UNCHANGED <<pending, emitted, expansion, cursor_call>>
          ELSE \E r \in {remove_last(pushed, m.result[1].chars_to_delete)} :
               \E e \in {expand_match(m.result[1])} :
                  /\ buffer' = r.s
                  /\ IF r.panic
                     THEN /\ pc' = "panicked"
                          /\ step' = "truncate_panicked"
                          /\ UNCHANGED <<pending, emitted, expansion, cursor_call>>
                     ELSE IF e.panic
                     THEN /\ pc' = "panicked"
                          /\ step' = "expand_panicked"
                          /\ UNCHANGED <<pending, emitted, expansion, cursor_call>>
                     ELSE IF ~e.ok
                     THEN /\ pc' = "idle"
                          /\ step' = "expand_failed"
                          /\ UNCHANGED <<pending, emitted, expansion, cursor_call>>
                     ELSE /\ expansion' = Some(e.expansion)
                          /\ cursor_call' = Some(e.cursor_call)
                          /\ pending' = output_calls(e.expansion)
                          /\ emitted' = << >>
                          /\ pc' = IF pending' = << >> THEN "idle" ELSE "output"
                          /\ step' = "matched"

\* ExpansionEngine::run, the event arm of the select, with process_event.
EngineEvent ==
    /\ UNCHANGED other_vars
    /\ pc = "idle"
    /\ event_rx # << >>
    /\ event_rx' = Tail(event_rx)
    /\ sent_order' = RemoveFirst(sent_order, "event")
    /\ \E event \in {Head(event_rx)} :
          IF event_dropped(enabled)
          THEN /\ step' = "dropped"
               /\ UNCHANGED regex_errors
               /\ UNCHANGED <<buffer, at_word_boundary, regex_cache, match_result,
                              pre_buffer, pc, pending, emitted, expansion, cursor_call>>
          ELSE IF event.kind \in {"Character", "WordBoundary"}
          THEN \E p \in {push_char(buffer, event.ch)} :
                  /\ at_word_boundary' = p.at_word_boundary
                  /\ IF p.panic
                     THEN /\ buffer' = p.buffer
                          /\ pc' = "panicked"
                          /\ step' = "drain_panicked"
                          /\ UNCHANGED regex_errors
                          /\ UNCHANGED <<regex_cache, match_result, pre_buffer,
                                         pending, emitted, expansion, cursor_call>>
                     ELSE CheckAndExpand(p.buffer)
          ELSE IF event.kind = "Backspace"
          THEN /\ buffer' = handle_backspace(buffer)
               /\ step' = "backspace"
               /\ UNCHANGED regex_errors
               /\ UNCHANGED <<at_word_boundary, regex_cache, match_result,
                              pre_buffer, pc, pending, emitted, expansion, cursor_call>>
          ELSE /\ buffer' = << >>
               /\ at_word_boundary' = TRUE
               /\ step' = "clear"
               /\ UNCHANGED regex_errors
               /\ UNCHANGED <<regex_cache, match_result, pre_buffer, pc,
                              pending, emitted, expansion, cursor_call>>
    /\ UNCHANGED <<trie, regex_snippets, loaded, read_snippets, typed,
                   config, enabled, reload_rx, mgr_config, config_rx>>

\* OutputEngine::output_expansion, one awaited run_ydotool call: the tool
\* succeeds or fails; a failure ends output_expansion with an error that
\* run logs.
EngineOutput(ok) ==
    /\ UNCHANGED sent_order
    /\ UNCHANGED regex_errors
    /\ UNCHANGED other_vars
    /\ pc = "output"
    /\ emitted' = Append(emitted, [ok |-> ok, call |-> Head(pending)])
    /\ pending' = IF ok THEN Tail(pending) ELSE << >>
    /\ pc' = IF pending' = << >> THEN "idle" ELSE "output"
    /\ step' = IF ok THEN "output" ELSE "output_failed"
    /\ UNCHANGED <<buffer, at_word_boundary, trie, regex_snippets, regex_cache,
                   match_result, pre_buffer, loaded, read_snippets, typed,
                   config, enabled, event_rx, reload_rx, mgr_config, config_rx,
                   expansion, cursor_call>>

\* KeyboardMonitor::run sends an event on the event channel.
SendKey(event) ==
    /\ UNCHANGED regex_errors
    /\ UNCHANGED other_vars
    /\ typed < MaxKeys
    /\ Len(event_rx) < MaxQueue
    /\ typed' = typed + 1
    /\ event_rx' = Append(event_rx, event)
    /\ sent_order' = Append(sent_order, "event")
    /\ UNCHANGED <<buffer, at_word_boundary, trie, regex_snippets, regex_cache,
                   match_result, pre_buffer, loaded, read_snippets, pc,
                   config, enabled, reload_rx, mgr_config, config_rx,
                   pending, emitted, step, expansion, cursor_call>>

\* The holder of the sender of the reload channel that
\* start_expansion_pipeline receives sends a signal.
SendReload ==
    /\ UNCHANGED regex_errors
    /\ UNCHANGED other_vars
    /\ reload_rx < MaxSignals
    /\ reload_rx' = reload_rx + 1
    /\ sent_order' = Append(sent_order, "reload")
    /\ UNCHANGED <<buffer, at_word_boundary, trie, regex_snippets, regex_cache,
                   match_result, pre_buffer, loaded, read_snippets, typed, pc,
                   config, enabled, event_rx, mgr_config, config_rx,
                   pending, emitted, step, expansion, cursor_call>>

\* ConfigManager::setup_watcher, the callback on a change of the file that
\* load_config parses: the spawned task replaces the manager's configuration
\* and sends the new one to main.
WatcherReload(new_config) ==
    /\ UNCHANGED sent_order
    /\ UNCHANGED regex_errors
    /\ UNCHANGED other_vars
    /\ Len(config_rx) < MaxSignals
    /\ mgr_config' = new_config
    /\ config_rx' = Append(config_rx, new_config)
    /\ UNCHANGED <<buffer, at_word_boundary, trie, regex_snippets, regex_cache,
                   match_result, pre_buffer, loaded, read_snippets, typed, pc,
                   config, enabled, event_rx, reload_rx,
                   pending, emitted, step, expansion, cursor_call>>

\* main, the task that handles the config reload notifications.
\* The task of main that takes reloaded configurations, were it to copy
\* settings.enabled into the flag.
ConfigReloaded_sets_enabled ==
    /\ UNCHANGED sent_order
    /\ UNCHANGED regex_errors
    /\ UNCHANGED other_vars
    /\ config_rx # << >>
    /\ config' = Head(config_rx)
    /\ config_rx' = Tail(config_rx)
    /\ enabled' = Head(config_rx).settings.enabled
    /\ UNCHANGED <<buffer, at_word_boundary, trie, regex_snippets, regex_cache,
                   match_result, pre_buffer, loaded, read_snippets, typed, pc,
                   event_rx, reload_rx, mgr_config,
                   pending, emitted, step, expansion, cursor_call>>

ConfigReloaded ==
    /\ UNCHANGED sent_order
    /\ UNCHANGED regex_errors
    /\ UNCHANGED other_vars
    /\ config_rx # << >>
    /\ config' = Head(config_rx)
    /\ config_rx' = Tail(config_rx)
    /\ UNCHANGED <<buffer, at_word_boundary, trie, regex_snippets, regex_cache,
                   match_result, pre_buffer, loaded, read_snippets, typed, pc,
                   enabled, event_rx, reload_rx, mgr_config,
                   pending, emitted, step, expansion, cursor_call>>

\* main, the tray task on TrayCommand::ToggleEnabled.
ToggleEnabled ==
    /\ UNCHANGED sent_order
    /\ UNCHANGED regex_errors
    /\ UNCHANGED other_vars
    /\ enabled' = ~enabled
    /\ UNCHANGED <<buffer, at_word_boundary, trie, regex_snippets, regex_cache,
                   match_result, pre_buffer, loaded, read_snippets, typed, pc,
                   config, event_rx, reload_rx, mgr_config, config_rx,
                   pending, emitted, step, expansion, cursor_call>>

\* main, the tray task on TrayCommand::ReloadConfig when load_config
\* succeeds.
ReloadConfig(new_config) ==
    /\ UNCHANGED sent_order
    /\ UNCHANGED regex_errors
    /\ UNCHANGED other_vars
    /\ config' = new_config
    /\ UNCHANGED <<buffer, at_word_boundary, trie, regex_snippets, regex_cache,
                   match_result, pre_buffer, loaded, read_snippets, typed, pc,
                   enabled, event_rx, reload_rx, mgr_config, config_rx,
                   pending, emitted, step, expansion, cursor_call>>

Next ==
    \/ EngineStart
    \/ EngineEvent
    \/ EngineReload
    \/ \E ok \in BOOLEAN : EngineOutput(ok)
    \/ \E event \in KeyboardEvents : SendKey(event)
    \/ SendReload
    \/ \E new_config \in ConfigFiles : WatcherReload(new_config)
    \/ ConfigReloaded
    \/ ToggleEnabled
    \/ \E new_config \in ConfigFiles : ReloadConfig(new_config)

\* The daemon: the engine with the tasks of main and the key-event source.
Spec == Init /\ [][Next]_vars

\* ------------------------------------------------ the end of the run loop

\* The last sender of the event channel is dropped: the channel is closed,
\* recv yields the events still queued and then None.
DropEventSender ==
    /\ event_tx_alive
    /\ event_tx_alive' = FALSE
    /\ UNCHANGED pipeline_vars_but_senders
    /\ UNCHANGED <<builtin_call, monitor, reload_tx_alive>>

\* The last sender of the reload channel is dropped.
DropReloadSender ==
    /\ reload_tx_alive
    /\ reload_tx_alive' = FALSE
    /\ UNCHANGED pipeline_vars_but_senders
    /\ UNCHANGED <<builtin_call, monitor, event_tx_alive>>

\* ExpansionEngine::run, the else arm of the select: both recv have yielded
\* None, the loop breaks and run returns.
EngineStop ==
    /\ pc = "idle"
    /\ ~event_tx_alive
    /\ event_rx = << >>
    /\ ~reload_tx_alive
    /\ reload_rx = 0
    /\ pc' = "stopped"
    /\ step' = "stopped"
    /\ UNCHANGED <<buffer, at_word_boundary, trie, regex_snippets, regex_cache,
                   match_result, pre_buffer, loaded, read_snippets, typed,
                   config, enabled, event_rx, reload_rx, mgr_config, config_rx,
                   pending, emitted, expansion, cursor_call, sent_order,
                   regex_errors>>
    /\ UNCHANGED other_vars

\* The steps of the task that runs ExpansionEngine::run.
EngineSteps ==
    \/ EngineStart
    \/ EngineEvent
    \/ EngineReload
    \/ \E ok \in BOOLEAN : EngineOutput(ok)
    \/ EngineStop

ShutdownNext ==
    \/ EngineSteps
    \/ \E event \in KeyboardEvents : event_tx_alive /\ SendKey(event)
    \/ reload_tx_alive /\ SendReload
    \/ DropEventSender
    \/ DropReloadSender

\* The engine with the senders of its two channels, which send and are
\* dropped at any time.
SpecShutdown == Init /\ [][ShutdownNext]_vars

\* ------------------------------------- a pattern that does not compile

\* A configuration file whose first regex snippet has the pattern (a, which
\* does not compile, followed by the regex snippet a+.
ConfigBad ==
    [snippets |->
        <<SnippetNode_Snippet(Snippet(<<"(", "a">>, <<"y">>, FALSE, TRUE, TRUE)),
          SnippetNode_Snippet(Snippet(<<"a", "+">>, <<"x">>, FALSE, TRUE, TRUE))>>,
     settings |-> Settings(TRUE, TRUE)]

\* main with the file ConfigBad loaded.
BadRegexInit ==
    /\ buffer = << >>
    /\ at_word_boundary = TRUE
    /\ trie = Trie_new
    /\ regex_snippets = << >>
    /\ regex_cache = << >>
    /\ match_result = None
    /\ pre_buffer = << >>
    /\ loaded = << >>
    /\ read_snippets = << >>
    /\ typed = 0
    /\ pc = "start"
    /\ config = ConfigBad
    /\ enabled = config.settings.enabled
    /\ event_rx = << >>
    /\ reload_rx = 0
    /\ mgr_config = config
    /\ config_rx = << >>
    /\ pending = << >>
    /\ emitted = << >>
    /\ step = "none"
    /\ expansion = None
    /\ cursor_call = None
    /\ builtin_call = None
    /\ monitor = monitor_start
    /\ sent_order = << >>
    /\ event_tx_alive = TRUE
    /\ reload_tx_alive = TRUE
    /\ screen = << >>
    /\ regex_errors = 0

BadRegexNext ==
    \/ EngineStart
    \/ EngineEvent
    \/ EngineReload
    \/ \E ok \in BOOLEAN : EngineOutput(ok)
    \/ \E event \in KeyboardEvents : SendKey(event)
    \/ SendReload

\* The engine on a configuration with a pattern that does not compile.
SpecBadRegex == BadRegexInit /\ [][BadRegexNext]_vars

OutputNext ==
    \/ OutputExpansion
    \/ \E ok \in BOOLEAN : EngineOutput(ok)

\* output_expansion on ExpansionResults of every shape, each ydotool call
\* succeeding or failing.
SpecOutput == OutputInit /\ [][OutputNext]_vars

\* ------------------------------------------- the functions of builtins.rs

\* No part of the pipeline runs: the matcher is as Matcher::new leaves it,
\* the channels are empty, nothing was synthesized.
PipelineIdle ==
    /\ buffer = << >>
    /\ at_word_boundary = TRUE
    /\ trie = Trie_new
    /\ regex_snippets = << >>
    /\ regex_cache = << >>
    /\ match_result = None
    /\ pre_buffer = << >>
    /\ loaded = << >>
    /\ read_snippets = << >>
    /\ typed = 0
    /\ pc = "new"
    /\ config = [snippets |-> << >>, settings |-> Settings(TRUE, TRUE)]
    /\ enabled = TRUE
    /\ event_rx = << >>
    /\ reload_rx = 0
    /\ mgr_config = config
    /\ config_rx = << >>
    /\ pending = << >>
    /\ emitted = << >>
    /\ step = "none"
    /\ expansion = None
    /\ cursor_call = None
    /\ sent_order = << >>
    /\ event_tx_alive = TRUE
    /\ reload_tx_alive = TRUE
    /\ screen = << >>
    /\ regex_errors = 0

\* The variables the calls of the functions of builtins.rs leave alone.
pipeline_vars ==
    <<buffer, at_word_boundary, trie, regex_snippets, regex_cache, match_result,
      pre_buffer, loaded, read_snippets, typed, pc, config, enabled, event_rx,
      reload_rx, mgr_config, config_rx, pending, emitted, step, expansion,
      cursor_call, sent_order, event_tx_alive, reload_tx_alive, regex_errors,
      screen>>

\* The chars of the triggers handed to propagate_case: a prefix char, a
\* letter in both cases and an uppercase two-byte letter.
TriggerAlphabet == {";", "a", "A", "É"}

\* The chars of the replacements handed to propagate_case: letters in both
\* cases, the letter ß whose uppercase is two chars, and a non-letter.
ReplacementAlphabet == {"a", "A", "é", "ß", ";"}

\* A trigger and a replacement about to be handed to propagate_case, as the
\* unit tests of builtins.rs hand them.
CaseInit ==
    /\ PipelineIdle
    /\ monitor = monitor_start
    /\ builtin_call \in
          {Some([fn |-> "propagate_case", trigger |-> t, replacement |-> r,
                 ret |-> None, again |-> None]) :
              t \in SeqsUpTo(TriggerAlphabet, MaxTrigger),
              r \in SeqsUpTo(ReplacementAlphabet, MaxReplacement)}

\* propagate_case(trigger, replacement)
PropagateCase ==
    /\ builtin_call # None
    /\ builtin_call[1].fn = "propagate_case"
    /\ builtin_call[1].ret = None
    /\ builtin_call' =
          Some([builtin_call[1] EXCEPT
                  !.ret = Some(propagate_case(builtin_call[1].trigger,
                                              builtin_call[1].replacement))])
    /\ UNCHANGED pipeline_vars
    /\ UNCHANGED monitor

\* propagate_case(trigger, r) on the result r of the first call
PropagateCaseAgain ==
    /\ builtin_call # None
    /\ builtin_call[1].fn = "propagate_case"
    /\ builtin_call[1].ret # None
    /\ builtin_call[1].again = None
    /\ builtin_call' =
          Some([builtin_call[1] EXCEPT
                  !.again = Some(propagate_case(builtin_call[1].trigger,
                                                builtin_call[1].ret[1]))])
    /\ UNCHANGED pipeline_vars
    /\ UNCHANGED monitor

CaseNext ==
    \/ PropagateCase
    \/ PropagateCaseAgain

\* propagate_case on triggers and replacements of every shape, applied once
\* and once more to its own result.
SpecCase == CaseInit /\ [][CaseNext]_vars

\* The token {{content}} as it is written in a template.
Token(content) == <<"{", "{">> \o content \o <<"}", "}">>

\* The decimal digits of a number below 100.
Decimal(n) ==
    IF n < 10 THEN <<DigitChars[n + 1]>>
    ELSE <<DigitChars[(n \div 10) + 1], DigitChars[(n % 10) + 1]>>

\* The token {{random:N}}
RandomToken(n) == Token(RandomPrefix \o Decimal(n))

\* Tokens whose content names no variable: u, written with and without
\* whitespace inside the braces.
UnknownTokens ==
    {Token(<<"u">>), Token(<<" ", "u">>), Token(<<"u", " ">>), Token(<<" ", "u", " ">>)}

\* The cursor token, written with and without whitespace.
CursorTokens == {Token(<<"|">>), Token(<<" ", "|", " ">>)}

\* random tokens whose digit count does not parse, or is written with
\* whitespace around it.
OddRandomTokens ==
    {Token(RandomPrefix \o <<"x">>), Token(RandomPrefix \o <<" ", "5", " ">>)}

\* The pieces the texts handed to expand_variables are made of.
Pieces ==
    {RandomToken(n) : n \in 0..MaxDigits}
    \cup UnknownTokens \cup CursorTokens \cup OddRandomTokens
    \cup {<<"x">>, <<"{">>, <<"}">>, <<EnvUnset>>}

\* The pieces of a text, one after the other.
RECURSIVE Concat(_)
Concat(pieces) ==
    IF pieces = << >> THEN << >> ELSE Head(pieces) \o Concat(Tail(pieces))

\* A text about to be handed to expand_variables, as the unit tests of
\* builtins.rs hand it.
VariablesInit ==
    /\ PipelineIdle
    /\ monitor = monitor_start
    /\ builtin_call \in
          {Some([fn |-> "expand_variables", pieces |-> ps, text |-> Concat(ps),
                 rng |-> rng, ret |-> None]) :
              ps \in SeqsUpTo(Pieces, MaxPieces), rng \in Rngs}

\* expand_variables(text, &serde_yaml::Value::Null)
ExpandVariables ==
    /\ builtin_call # None
    /\ builtin_call[1].fn = "expand_variables"
    /\ builtin_call[1].ret = None
    /\ builtin_call' =
          Some([builtin_call[1] EXCEPT
                  !.ret = Some(expand_variables_with(builtin_call[1].text,
                                                     builtin_call[1].rng))])
    /\ UNCHANGED pipeline_vars
    /\ UNCHANGED monitor

VariablesNext == ExpandVariables

\* expand_variables on texts of tokens and plain chars.
SpecVariables == VariablesInit /\ [][VariablesNext]_vars

\* ------------------------------------------------- the monitor on its own

\* The task of the monitor runs on the default configuration; no engine
\* takes the events off the channel.
MonitorInit ==
    /\ PipelineIdle
    /\ builtin_call = None
    /\ monitor = monitor_start

\* main stores a configuration that names the layout l in the shared state.
LayoutChanged(l) ==
    /\ l # config.settings.layout
    /\ config' = [config EXCEPT !.settings.layout = l]
    /\ mgr_config' = config'
    /\ UNCHANGED <<buffer, at_word_boundary, trie, regex_snippets, regex_cache,
                   match_result, pre_buffer, loaded, read_snippets, typed, pc,
                   enabled, event_rx, reload_rx, config_rx, pending, emitted,
                   step, expansion, cursor_call, sent_order, regex_errors>>
    /\ UNCHANGED other_vars

\* KeyboardMonitor::run takes the raw event (key, value) off internal_rx:
\* one turn of its loop. event_tx.send waits while the channel is full, which
\* it is here once it holds MaxSent events.
MonitorEvent(key, value) ==
    /\ \E m \in {monitor_step(monitor, config.settings.layout, key, value)} :
          /\ Len(event_rx) + Len(m.sent) <= MaxSent
          /\ monitor' = m
          /\ event_rx' = event_rx \o m.sent
          /\ sent_order' = sent_order \o [i \in 1..Len(m.sent) |-> "event"]
    /\ UNCHANGED <<buffer, at_word_boundary, trie, regex_snippets, regex_cache,
                   match_result, pre_buffer, loaded, read_snippets, typed, pc,
                   config, enabled, reload_rx, mgr_config, config_rx, pending,
                   emitted, step, expansion, cursor_call, regex_errors>>
    /\ UNCHANGED <<builtin_call, event_tx_alive, reload_tx_alive, screen>>

MonitorNext ==
    \/ \E l \in Layouts : LayoutChanged(l)
    \/ \E key \in Keys, value \in KeyValues : MonitorEvent(key, value)

\* The monitor alone, fed raw events.
SpecMonitor == MonitorInit /\ [][MonitorNext]_vars

\* ------------------------------------------------- the devices of the monitor

\* KeyboardMonitor::new and the loop over self.devices of run: every node
\* that is a keyboard is admitted and gets a reader thread.
run_start(nodes) ==
    LET keyboards == {p \in Paths : nodes[p] = "keyboard"}
    IN [monitor_start EXCEPT
          !.nodes = nodes,
          !.monitored_paths = keyboards,
          !.spawned = [p \in Paths |-> IF p \in keyboards THEN 1 ELSE 0],
          !.reading = keyboards]

\* The hot-plug arm without its test of monitored_paths.
hot_plug_unchecked(m) ==
    LET path == Head(m.watcher_rx)
        taken == [m EXCEPT !.watcher_rx = Tail(m.watcher_rx)]
    IN IF m.nodes[path] = "keyboard"
       THEN [taken EXCEPT !.monitored_paths = @ \cup {path},
                          !.spawned[path] = @ + 1,
                          !.reading = @ \cup {path}]
       ELSE taken

\* The hot-plug arm of the loop of run on the oldest create notification:
\* a path already admitted is skipped; otherwise the node is opened, and a
\* keyboard is admitted and gets a reader thread.
hot_plug(m) ==
    LET path == Head(m.watcher_rx)
        taken == [m EXCEPT !.watcher_rx = Tail(m.watcher_rx)]
    IN IF path \in m.monitored_paths THEN taken
       ELSE IF m.nodes[path] = "keyboard"
       THEN [taken EXCEPT !.monitored_paths = @ \cup {path},
                          !.spawned[path] = @ + 1,
                          !.reading = @ \cup {path}]
       ELSE taken

\* What the actions on the devices leave alone.
device_unchanged ==
    /\ UNCHANGED <<buffer, at_word_boundary, trie, regex_snippets, regex_cache,
                   match_result, pre_buffer, loaded, read_snippets, typed, pc,
                   config, enabled, event_rx, reload_rx, mgr_config, config_rx,
                   pending, emitted, step, expansion, cursor_call, sent_order,
                   regex_errors>>
    /\ UNCHANGED <<builtin_call, event_tx_alive, reload_tx_alive, screen>>

\* The monitor starts on the nodes that exist.
DevicesInit ==
    /\ PipelineIdle
    /\ builtin_call = None
    /\ \E nodes \in [Paths -> NodeKinds] : monitor = run_start(nodes)

\* A device node appears in /dev/input: the callback of setup_watcher
\* sends its path, waiting while watcher_rx is full.
NodeCreated(path, kind) ==
    /\ kind # "absent"
    /\ monitor.nodes[path] = "absent"
    /\ monitor.plugs < MaxPlugs
    /\ Len(monitor.watcher_rx) < MaxWatch
    /\ monitor' = [monitor EXCEPT !.nodes[path] = kind,
                                  !.watcher_rx = Append(@, path),
                                  !.plugs = @ + 1]
    /\ device_unchanged

\* A device node disappears: fetch_events of its reader fails and
\* device_reader returns.
NodeRemoved(path) ==
    /\ monitor.nodes[path] # "absent"
    /\ monitor' = [monitor EXCEPT !.nodes[path] = "absent",
                                  !.reading = @ \ {path}]
    /\ device_unchanged

\* The loop of run takes a create notification.
HotPlug ==
    /\ monitor.watcher_rx # << >>
    /\ monitor' = hot_plug(monitor)
    /\ device_unchanged

\* The reader of the keyboard at path sends the raw event (key, value) and
\* the loop of run takes it.
DeviceKey(path, key, value) ==
    /\ path \in monitor.reading
    /\ MonitorEvent(key, value)

DevicesNext ==
    \/ \E path \in Paths, kind \in NodeKinds : NodeCreated(path, kind)
    \/ \E path \in Paths : NodeRemoved(path)
    \/ HotPlug
    \/ \E path \in Paths, key \in DeviceKeys, value \in {0, 1} :
          DeviceKey(path, key, value)

\* The monitor with devices that come and go.
SpecDevices == DevicesInit /\ [][DevicesNext]_vars

\* ------------------------------------------------- the keys of a keyboard

\* The Shift keys down after the keyboard reports (key, value): 1 is a
\* press, 0 a release, 2 the auto-repeat of a key that stays down.
held_after(held, key, value) ==
    IF key \notin ShiftKeys THEN held
    ELSE IF value = 1 THEN held \cup {key}
    ELSE IF value = 0 THEN held \ {key}
    ELSE held

\* A keyboard reports (key, value) and the loop of run takes it. A Shift
\* key is pressed when it is up and repeats or is released when it is down.
KeyReport(key, value) ==
    /\ key \in ShiftKeys => ((value = 1) <=> (key \notin monitor.held))
    /\ \E m \in {monitor_step(monitor, config.settings.layout, key, value)} :
          /\ Len(event_rx) + Len(m.sent) <= MaxSent
          /\ monitor' = [m EXCEPT !.held = held_after(@, key, value)]
          /\ event_rx' = event_rx \o m.sent
          /\ sent_order' = sent_order \o [i \in 1..Len(m.sent) |-> "event"]
    /\ UNCHANGED <<buffer, at_word_boundary, trie, regex_snippets, regex_cache,
                   match_result, pre_buffer, loaded, read_snippets, typed, pc,
                   config, enabled, reload_rx, mgr_config, config_rx, pending,
                   emitted, step, expansion, cursor_call, regex_errors>>
    /\ UNCHANGED <<builtin_call, event_tx_alive, reload_tx_alive, screen>>

\* The engine takes an event off the channel.
EventDrained ==
    /\ event_rx # << >>
    /\ event_rx' = Tail(event_rx)
    /\ sent_order' = Tail(sent_order)
    /\ UNCHANGED <<buffer, at_word_boundary, trie, regex_snippets, regex_cache,
                   match_result, pre_buffer, loaded, read_snippets, typed, pc,
                   config, enabled, reload_rx, mgr_config, config_rx, pending,
                   emitted, step, expansion, cursor_call, regex_errors>>
    /\ UNCHANGED other_vars

ShiftNext ==
    \/ \E key \in ShiftedKeys, value \in KeyValues : KeyReport(key, value)
    \/ EventDrained

\* The monitor fed the reports of keyboards whose Shift keys go down and up.
SpecShift == MonitorInit /\ [][ShiftNext]_vars

\* A buffer of n chars: the boundary char ; throughout, but é at index k
\* (none for k = 0).
Filler(n, k) == [i \in 1..n |-> IF i = k THEN "é" ELSE ";"]

\* Buffers within NearFull chars of max_buffer_size, plain or with an é that
\* straddles the byte offset where push_char cuts when it drains.
LongBuffers ==
    {b \in {Filler(n, k) : n \in (max_buffer_size - NearFull)..max_buffer_size,
                           k \in {0, max_buffer_size \div 2 + 1}} :
        str_len(b) <= max_buffer_size}

\* The engine after ConfigA was loaded and a long run of ; and é was typed:
\* none of it matched, the buffer is close to full, all channels are empty.
LongInit ==
    /\ buffer \in LongBuffers
    /\ at_word_boundary = is_boundary_char(buffer[Len(buffer)])
    /\ config = ConfigA
    /\ read_snippets = config.snippets
    /\ loaded = flatten_snippets(read_snippets)
    /\ trie = reload(loaded).trie
    /\ regex_snippets = reload(loaded).regex_snippets
    /\ regex_cache = << >>
    /\ match_result = None
    /\ pre_buffer = buffer
    /\ typed = 0
    /\ pc = "idle"
    /\ enabled = config.settings.enabled
    /\ event_rx = << >>
    /\ reload_rx = 0
    /\ mgr_config = config
    /\ config_rx = << >>
    /\ pending = << >>
    /\ emitted = << >>
    /\ step = "pushed"
    /\ expansion = None
    /\ cursor_call = None
    /\ builtin_call = None
    /\ monitor = monitor_start
    /\ sent_order = << >>
    /\ event_tx_alive = TRUE
    /\ reload_tx_alive = TRUE
    /\ screen = << >>
    /\ regex_errors = 0

\* The steps of the engine, with the senders of its two channels and the
\* switch it reads; the configuration file stays as it is.
LongNext ==
    \/ EngineEvent
    \/ EngineReload
    \/ \E ok \in BOOLEAN : EngineOutput(ok)
    \/ \E event \in KeyboardEvents : SendKey(event)
    \/ SendReload
    \/ ToggleEnabled

\* The engine from a typing buffer that is close to full.
SpecLong == LongInit /\ [][LongNext]_vars

\* ------------------------------------------------------------------ claims

\* check_match has run on pre_buffer (and remove_last after it, on a match).
Checked == pc \in {"checked", "panicked"}

\* loaded[i] is an enabled literal snippet whose trigger ends buf and no
\* other enabled literal snippet of the vector competes with it: none has a
\* longer trigger that ends buf, none loaded after it has the same trigger.
Unrivalled(i, buf) ==
    /\ loaded[i].enabled
    /\ ~loaded[i].regex
    /\ loaded[i].trigger # << >>
    /\ EndsWith(buf, loaded[i].trigger)
    /\ \A j \in DOMAIN loaded :
          (j # i /\ loaded[j].enabled /\ ~loaded[j].regex
             /\ EndsWith(buf, loaded[j].trigger))
          => \/ Len(loaded[j].trigger) < Len(loaded[i].trigger)
             \/ (loaded[j].trigger = loaded[i].trigger /\ j < i)

\* The char before the trailing t of buf is absent, whitespace or ASCII
\* punctuation.
AtWordBoundary(buf, t) ==
    \/ Len(buf) = Len(t)
    \/ is_boundary_char(buf[Len(buf) - Len(t)])

\* C1: an enabled literal snippet S with word_boundary = false: after any
\* string ending in its trigger T was pushed into a fresh buffer, check_match
\* returns S with chars_to_delete equal to the byte length of T. Stated for
\* the snippet the longest-match rule selects.
C1_MatchWithByteLength ==
    Checked =>
        \A i \in DOMAIN loaded :
            (Unrivalled(i, pre_buffer) /\ ~loaded[i].word_boundary)
            => /\ match_result # None
               /\ match_result[1].snippet = loaded[i]
               /\ match_result[1].chars_to_delete = str_len(loaded[i].trigger)

\* C2: a snippet with word_boundary = true whose trigger T is at the tail of
\* the buffer is returned by check_match if and only if T starts the buffer
\* or the char just before T is whitespace or ASCII punctuation, whatever
\* the buffer holds. Stated for the snippet the longest-match rule selects.
C2_WordBoundaryIff ==
    Checked =>
        \A i \in DOMAIN loaded :
            (Unrivalled(i, pre_buffer) /\ loaded[i].word_boundary)
            => ((match_result # None /\ match_result[1].snippet = loaded[i])
                <=> AtWordBoundary(pre_buffer, loaded[i].trigger))

\* C5: after a match, remove_last(chars_to_delete) leaves the pre-match
\* buffer with exactly the matched trigger text removed from its tail.
C5_TriggerRemoved ==
    (Checked /\ match_result # None) =>
        /\ pc = "checked"
        /\ pre_buffer = buffer \o match_result[1].typed_trigger
        /\ str_len(pre_buffer) - str_len(buffer)
              = str_len(match_result[1].typed_trigger)


\* t1 is a proper suffix of t2.
ProperSuffix(t1, t2) == Len(t1) < Len(t2) /\ EndsWith(t2, t1)

\* Two loaded literal snippets, the trigger of loaded[i] a proper suffix of
\* the trigger of loaded[j], and the buffer ends with the longer one.
NestedPair(i, j) ==
    /\ i # j
    /\ loaded[i].enabled /\ ~loaded[i].regex
    /\ loaded[j].enabled /\ ~loaded[j].regex
    /\ ProperSuffix(loaded[i].trigger, loaded[j].trigger)
    /\ EndsWith(buffer, loaded[j].trigger)

\* C3 as stated: for two loaded literal triggers T1, T2 with T1 a proper
\* suffix of T2, whenever the buffer ends with T2 the trie lookup returns the
\* snippet of T2 with length |T2|.
C3_ReturnsT2 ==
    \A i \in DOMAIN loaded : \A j \in DOMAIN loaded :
        NestedPair(i, j)
        => find_match(trie, buffer) = Some(<<loaded[j], Len(loaded[j].trigger)>>)

\* C3 amended: for two loaded literal triggers T1, T2 with T1 a proper
\* suffix of T2, whenever the buffer ends with T2 the trie lookup returns the
\* snippet of the deepest terminal node of the backward walk, that is the
\* last loaded snippet of the longest loaded trigger that ends the buffer,
\* with the length of that trigger in chars; it is at least as long as T2
\* and is never the snippet of T1, whatever the insertion order.
C3_ReturnsDeepest ==
    \A i \in DOMAIN loaded : \A j \in DOMAIN loaded :
        NestedPair(i, j)
        => \E k \in DOMAIN loaded :
              /\ Unrivalled(k, buffer)
              /\ find_match(trie, buffer) = Some(<<loaded[k], Len(loaded[k].trigger)>>)
              /\ Len(loaded[k].trigger) >= Len(loaded[j].trigger)
              /\ loaded[k].trigger # loaded[i].trigger

\* C3 witness: the shorter trigger was inserted last, the buffer ends with
\* the longer one, and check_match returned the longer one's snippet.
C3_Witness ==
    /\ pc = "checked"
    /\ Len(loaded) = 2
    /\ loaded[1].trigger = <<";", "a">>
    /\ loaded[2].trigger = <<"a">>
    /\ pre_buffer = <<"a", ";", "a">>
    /\ match_result # None
    /\ match_result[1].snippet = loaded[1]
    /\ match_result[1].chars_to_delete = 2

\* The last step of the engine ran check_match and it returned a match.
Matched == step \in {"matched", "expand_failed", "truncate_panicked"}

\* The snippets stored at the terminal nodes of the trie.
TrieSnippets == {trie[n][1] : n \in {m \in DOMAIN trie : trie[m] # None}}

\* The engine takes the oldest event from its channel in this step.
TakesEvent == pc = "idle" /\ event_rx # << >> /\ event_rx' = Tail(event_rx)

\* b is a prefix of s.
IsPrefixOf(b, s) == Len(b) <= Len(s) /\ b = Prefix(s, Len(b))

\* C4: after any sequence of push_char, handle_backspace, clear, remove_last
\* and reload operations the byte length of the typing buffer is at most
\* max_buffer_size; stated of every state in which the matcher exists, that
\* is, the task that owns it has not panicked.
C4_BufferBounded == pc # "panicked" => str_len(buffer) <= max_buffer_size

\* C4 witness: a push on a buffer at capacity has drained it to half of
\* max_buffer_size.
C4_Witness ==
    /\ step = "pushed"
    /\ typed > 0
    /\ str_len(buffer) = max_buffer_size \div 2

\* What a char event may do to the buffer: the char is appended, a prefix is
\* drained if that put the buffer over capacity, and after a match exactly
\* chars_to_delete bytes are cut from the tail.
CharStep(ch) ==
    LET pushed == Append(buffer, ch)
        kept == {pushed} \cup
                (IF str_len(pushed) > max_buffer_size
                 THEN {Suffix(pushed, k) : k \in 2..Len(pushed)}
                 ELSE {})
    IN \E base \in kept :
          \/ buffer' = base
          \/ /\ match_result' # None
             /\ step' = "matched" \/ step' = "expand_failed"
             /\ pre_buffer' = base
             /\ IsPrefixOf(buffer', base)
             /\ str_len(buffer') + match_result'[1].chars_to_delete = str_len(base)

C7_DisabledDrops ==
    [][ (TakesEvent /\ ~enabled) =>
            /\ step' = "dropped"
            /\ UNCHANGED <<buffer, at_word_boundary, match_result, pre_buffer,
                           regex_cache, pending, emitted, pc>>
      ]_vars

\* C7 witness: an event was dropped while text was in the buffer.
C7_Witness ==
    /\ step = "dropped"
    /\ ~enabled
    /\ buffer # << >>

\* C8: after a reload check_match returns only snippets of the flattened
\* sequence of the configuration read at that reload: the trie, the regex
\* list and the cache all belong to that one sequence, never a mixture.
C8_OnlyLoadedSet ==
    /\ TrieSnippets = {sn \in Range(loaded) : sn.enabled /\ ~sn.regex}
    /\ Range(regex_snippets) = {sn \in Range(loaded) : sn.enabled /\ sn.regex}
    /\ DOMAIN regex_cache \subseteq {sn.trigger : sn \in Range(regex_snippets)}
    /\ pc # "start" => loaded = flatten_snippets(read_snippets)
    /\ Matched => match_result[1].snippet \in Range(loaded)

\* C8 witness: a reload has replaced the set, and the snippet of the last
\* match, which belonged to the previous set, is absent from the new one.
C8_Witness ==
    /\ step = "reload"
    /\ match_result # None
    /\ match_result[1].snippet \notin Range(loaded)
    /\ TrieSnippets # {}

\* C9: every replacement of the shared configuration sends a reload signal
\* on the control channel of the engine.
C9_ReplacementSignals ==
    [][ (config' # config) => (reload_rx' = reload_rx + 1) ]_vars

\* The index paths of the snippet leaves of a tree of nodes.
RECURSIVE LeafPaths(_)
LeafPaths(nodes) ==
    UNION {IF nodes[i].kind = "Snippet" THEN {<<i>>}
           ELSE {<<i>> \o p : p \in LeafPaths(nodes[i].items)} : i \in DOMAIN nodes}

\* The snippet at leaf path p.
RECURSIVE SnippetAt(_, _)
SnippetAt(nodes, p) ==
    IF Len(p) = 1 THEN nodes[p[1]].snippet
    ELSE SnippetAt(nodes[p[1]].items, Tail(p))

\* The snippet at leaf path p is enabled and so is every folder above it.
RECURSIVE Active(_, _)
Active(nodes, p) ==
    IF Len(p) = 1 THEN nodes[p[1]].snippet.enabled
    ELSE nodes[p[1]].enabled /\ Active(nodes[p[1]].items, Tail(p))

\* Leaf path p comes before leaf path q in depth-first order.
RECURSIVE Before(_, _)
Before(p, q) ==
    IF p = << >> \/ q = << >> THEN FALSE
    ELSE p[1] < q[1] \/ (p[1] = q[1] /\ Before(Tail(p), Tail(q)))

\* The active snippets of a tree in their declared depth-first order.
DeclaredOrder(nodes) ==
    LET act == {p \in LeafPaths(nodes) : Active(nodes, p)}
    IN [i \in 1..Cardinality(act) |->
            SnippetAt(nodes, CHOOSE p \in act :
                                 Cardinality({q \in act : Before(q, p)}) = i - 1)]

\* The snippets of a tree that are disabled or lie under a disabled folder.
Inactive(nodes) ==
    {SnippetAt(nodes, p) : p \in {q \in LeafPaths(nodes) : ~Active(nodes, q)}}

\* C10: a snippet with enabled = false, and every snippet under a folder
\* with enabled = false at any depth, is never held by the matcher nor
\* returned by check_match; the flattened sequence is the remaining snippets
\* in their declared depth-first order.
C10_DisabledNeverMatch ==
    pc # "start" =>
        /\ loaded = DeclaredOrder(read_snippets)
        /\ \A sn \in Inactive(read_snippets) :
              /\ sn \notin TrieSnippets
              /\ sn \notin Range(regex_snippets)
              /\ Matched => match_result[1].snippet # sn

\* C10 witness: the trigger of a snippet under a disabled folder nested in
\* an enabled one was typed, and check_match returned nothing.
C10_Witness ==
    /\ read_snippets = ConfigA.snippets
    /\ step = "pushed"
    /\ pre_buffer = <<"é">>
    /\ match_result = None
    /\ \E sn \in Inactive(read_snippets) : sn.enabled /\ sn.trigger = pre_buffer

\* The pattern of the regex snippet sn compiles and (?:P)$ matches buf.
PatternMatches(sn, buf) ==
    /\ Regex_new(sn.trigger).ok
    /\ Regex_captures(Regex_new(sn.trigger).pieces, buf) # None

\* loaded[i] is an enabled regex snippet whose pattern matches the tail of
\* buf.
RegexCandidate(i, buf) ==
    /\ loaded[i].enabled
    /\ loaded[i].regex
    /\ PatternMatches(loaded[i], buf)

\* loaded[i] is the literal snippet the longest-match rule selects for buf
\* and its word-boundary requirement, if it has one, is met.
LiteralAccepted(i, buf) ==
    /\ Unrivalled(i, buf)
    /\ loaded[i].word_boundary => AtWordBoundary(buf, loaded[i].trigger)

\* C11: when the tail of the buffer is matched both by a literal trigger
\* that passes its word-boundary check and by a regex snippet, check_match
\* returns the literal snippet; a regex snippet is returned only when no
\* literal match is accepted.
C11_LiteralBeforeRegex ==
    Checked =>
        \A i \in DOMAIN loaded :
            (LiteralAccepted(i, pre_buffer)
               /\ \E j \in DOMAIN loaded : RegexCandidate(j, pre_buffer))
            => /\ match_result # None
               /\ match_result[1].snippet = loaded[i]

\* The char index (from 1) where the leftmost match of (?:P)$ starts in buf.
MatchStart(sn, buf) == Regex_captures(Regex_new(sn.trigger).pieces, buf)[1].start

\* loaded[i] is an enabled regex snippet that matches the tail of buf: its
\* pattern matches and, if it requires a word boundary, the match starts the
\* buffer or follows whitespace or ASCII punctuation.
RegexMatchesTail(i, buf) ==
    /\ RegexCandidate(i, buf)
    /\ loaded[i].word_boundary =>
          \/ MatchStart(loaded[i], buf) = 1
          \/ is_boundary_char(buf[MatchStart(loaded[i], buf) - 1])

\* No literal snippet is loaded.
OnlyRegex == \A i \in DOMAIN loaded : loaded[i].regex

\* C12: when several regex snippets match the tail of the buffer, check_match
\* returns the one that comes first in the declared order, for every order of
\* the snippets and every history of reloads.
C12_FirstRegexWins ==
    (Checked /\ OnlyRegex) =>
        \A i \in DOMAIN loaded :
            (RegexMatchesTail(i, pre_buffer)
               /\ (\A j \in 1..(i - 1) : ~RegexMatchesTail(j, pre_buffer))
               /\ (\E k \in DOMAIN loaded : k > i /\ RegexMatchesTail(k, pre_buffer)))
            => /\ match_result # None
               /\ match_result[1].snippet = loaded[i]

\* The capture groups 1..n of the leftmost match of (?:P)$ in buf, one
\* Option per group of the pattern.
Groups(sn, buf) == Regex_captures(Regex_new(sn.trigger).pieces, buf)[1].groups

\* The text of a capture group: empty if the group did not take part.
GroupText(g) == IF g = None THEN << >> ELSE g[1]

\* text from index pos on, with every marker $k, k in 1..n, replaced by the
\* text of group k in one pass from the left, and every other marker kept.
RECURSIVE Substituted(_, _, _)
Substituted(text, pos, groups) ==
    IF pos > Len(text) THEN << >>
    ELSE IF text[pos] = "$" /\ DigitRun(text, pos + 1) > 0
    THEN LET n == DigitRun(text, pos + 1)
             k == parse_usize(SubSeq(text, pos + 1, pos + n))
         IN (IF k \in 1..Len(groups) THEN GroupText(groups[k])
             ELSE SubSeq(text, pos, pos + n))
            \o Substituted(text, pos + n + 1, groups)
    ELSE <<text[pos]>> \o Substituted(text, pos + 1, groups)

\* expand_match has expanded the match of a regex snippet.
RegexExpanded ==
    /\ pc = "expanded"
    /\ match_result # None
    /\ match_result[1].snippet.regex

\* C13: for a regex snippet with pattern P and a buffer B that (?:P)$ matches
\* with capture groups c1..cn, optional groups that did not take part
\* included, every $k of the replace text becomes the text of the k-th group
\* for k in 1..n, and chars_to_delete is the byte length of the full match.
C13_CapturesSubstituted ==
    RegexExpanded =>
        LET sn == match_result[1].snippet
        IN /\ expansion[1].text = Substituted(sn.replace, 1, Groups(sn, pre_buffer))
           /\ match_result[1].chars_to_delete
                 = str_len(Suffix(pre_buffer, MatchStart(sn, pre_buffer)))

\* The marker $k that starts at index pos of text names no capture of a
\* vector of n captures: k is zero or greater than n.
InvalidMarkerAt(text, pos, n) ==
    /\ text[pos] = "$"
    /\ DigitRun(text, pos + 1) > 0
    /\ parse_usize(SubSeq(text, pos + 1, pos + DigitRun(text, pos + 1))) \notin 1..n

\* The markers of text from index pos on that name no capture, in order.
RECURSIVE InvalidMarkers(_, _, _)
InvalidMarkers(text, pos, n) ==
    IF pos > Len(text) THEN << >>
    ELSE IF text[pos] = "$" /\ DigitRun(text, pos + 1) > 0
    THEN (IF InvalidMarkerAt(text, pos, n)
          THEN <<SubSeq(text, pos, pos + DigitRun(text, pos + 1))>>
          ELSE << >>)
         \o InvalidMarkers(text, pos + DigitRun(text, pos + 1) + 1, n)
    ELSE InvalidMarkers(text, pos + 1, n)

\* text from index pos on with each marker that names no capture replaced by
\* the inert element #.
RECURSIVE Masked(_, _, _)
Masked(text, pos, n) ==
    IF pos > Len(text) THEN << >>
    ELSE IF text[pos] = "$" /\ DigitRun(text, pos + 1) > 0
    THEN (IF InvalidMarkerAt(text, pos, n)
          THEN <<"#">>
          ELSE SubSeq(text, pos, pos + DigitRun(text, pos + 1)))
         \o Masked(text, pos + DigitRun(text, pos + 1) + 1, n)
    ELSE <<text[pos]>> \o Masked(text, pos + 1, n)

\* out with its successive # elements replaced by the successive markers.
RECURSIVE Unmasked(_, _)
Unmasked(out, markers) ==
    IF out = << >> THEN << >>
    ELSE IF Head(out) = "#" /\ markers # << >>
    THEN Head(markers) \o Unmasked(Tail(out), Tail(markers))
    ELSE <<Head(out)>> \o Unmasked(Tail(out), markers)

\* expand_match has expanded a match with captures whose replace text holds
\* only capture markers and letters (no cursor marker, no token).
CapturesExpanded ==
    /\ pc = "expanded"
    /\ match_result[1].captures # None
    /\ Range(match_result[1].snippet.replace) \subseteq {"$", "1", "0", "é"}

\* C14: in capture substitution a marker $k whose index is zero or greater
\* than the number of captures is left verbatim, whatever the replace text:
\* the output is the one obtained with those markers replaced beforehand by
\* inert text and put back afterwards.
C14_InvalidMarkersVerbatim ==
    CapturesExpanded =>
        LET text == match_result[1].snippet.replace
            captures == match_result[1].captures[1]
        IN expansion[1].text
              = Unmasked(replace_captures(Masked(text, 1, Len(captures)), captures),
                         InvalidMarkers(text, 1, Len(captures)))

\* The engine takes an event in this step and expands a match.
Expands == TakesEvent /\ step' = "matched"

\* C15: the delete_count of every ExpansionResult is the byte length of the
\* matched trigger when Settings.delete_trigger is true, and 0 when it is
\* false.
C15_DeleteCount ==
    [][ Expands =>
            expansion'[1].delete_count
               = IF config.settings.delete_trigger
                 THEN str_len(match_result'[1].typed_trigger)
                 ELSE 0
      ]_vars

\* The place of a ydotool call in the order of output_expansion: the
\* backspaces, the text, the left arrows.
Rank(call) ==
    IF call.cmd = "type" THEN 2
    ELSE IF call.key = "BackSpace" THEN 1
    ELSE 3

\* The ydotool calls started so far for the last expansion, in order.
Issued == [i \in DOMAIN emitted |-> emitted[i].call]

\* output_expansion has been entered for the expansion.
OutputStarted == expansion # None /\ step \in {"matched", "output", "output_failed"}

\* output_expansion has returned Ok for the expansion.
OutputDone == OutputStarted /\ pc = "idle" /\ step # "output_failed"

\* C16: for every expansion the ydotool calls are started strictly in the
\* order backspaces, text, left arrows, each only after the one before it
\* has completed; the backspaces are sent delete_count times and only if
\* delete_count > 0, the left arrows cursor_offset times and only if
\* cursor_offset > 0, and no call is started before the calls that precede
\* it in that order.
C16_CallOrder ==
    OutputStarted =>
        LET e == expansion[1]
            needs == {r \in 1..3 :
                         \/ r = 1 /\ e.delete_count > 0
                         \/ r = 2 /\ e.text # << >>
                         \/ r = 3 /\ e.cursor_offset # None /\ e.cursor_offset[1] > 0}
            ranks == {Rank(Issued[i]) : i \in DOMAIN Issued}
        IN /\ \A i \in DOMAIN Issued : \A j \in DOMAIN Issued :
                 i < j => Rank(Issued[i]) < Rank(Issued[j])
           /\ \A i \in DOMAIN emitted : i < Len(emitted) => emitted[i].ok
           /\ \A i \in DOMAIN Issued :
                 /\ Rank(Issued[i]) \in needs
                 /\ Rank(Issued[i]) = 1 => Issued[i].repeat = e.delete_count
                 /\ Rank(Issued[i]) = 2 => Issued[i].text = e.text
                 /\ Rank(Issued[i]) = 3 => Issued[i].repeat = e.cursor_offset[1]
                 /\ \A r \in needs : r < Rank(Issued[i]) => r \in ranks
           /\ OutputDone => ranks = needs

\* C16 witness: an expansion was put out in full with its three calls, the
\* backspaces, the text and the left arrows.
C16_Witness ==
    /\ OutputDone
    /\ Len(emitted) = 3
    /\ \A i \in DOMAIN emitted : emitted[i].ok

\* C17: an expansion is all or nothing as the user sees it: if one of the
\* three synthesis steps fails, no step of that expansion has emitted input.
C17_AllOrNothing ==
    step = "output_failed" => \A i \in DOMAIN emitted : ~emitted[i].ok

\* The engine takes an event in this step, finds a match and fails to expand
\* its variables.
ExpansionFails == TakesEvent /\ step' = "expand_failed"

\* C18: when the expansion of the variables fails for a matched snippet, the
\* trigger has already been removed from the typing buffer, no synthesizer
\* call is made for that expansion, and the engine loop goes on.
C18_FailedExpansion ==
    [][ ExpansionFails =>
            /\ pre_buffer' = buffer' \o match_result'[1].typed_trigger
            /\ pending = << >>
            /\ UNCHANGED <<pending, emitted, expansion>>
            /\ pc' = "idle"
      ]_vars

\* The marker $|$ stands at char index i of the text.
MarkerAt(text, i) ==
    /\ i >= 1
    /\ i + 2 <= Len(text)
    /\ text[i] = "$"
    /\ text[i + 1] = "|"
    /\ text[i + 2] = "$"

HasMarker(text) == \E i \in 1..Len(text) : MarkerAt(text, i)

\* The char index of the first marker of a text that has one.
FirstMarker(text) ==
    CHOOSE i \in 1..Len(text) :
        MarkerAt(text, i) /\ \A j \in 1..(i - 1) : ~MarkerAt(text, j)

\* The text without the three chars that start at char index i.
WithoutMarkerAt(text, i) ==
    [k \in 1..(Len(text) - 3) |-> IF k < i THEN text[k] ELSE text[k + 3]]

\* The byte position of char index i in the text.
BytePosition(text, i) == str_len(SubSeq(text, 1, i - 1))

\* The text expand_match holds after the captures and the variables are
\* expanded, for the match it was called on.
ExpandedText ==
    LET m == match_result[1]
    IN expand_variables(IF m.captures # None
                        THEN replace_captures(m.snippet.replace, m.captures[1])
                        ELSE m.snippet.replace).text

C20_OffsetPlusLength ==
    (cursor_call # None /\ HasMarker(cursor_call[1].arg)) =>
        LET arg == cursor_call[1].arg
            ret == cursor_call[1].ret
        IN /\ ret.pos # None
           /\ \/ ret.pos[1] + str_len(ret.text) = str_len(arg) - 3
              \/ ret.pos[1] + Len(ret.text) = Len(arg) - 3

\* C20, amended: for a text with a marker, find_cursor_position returns the
\* text without its first marker, 3 bytes shorter than the original, and the
\* byte position at which that marker stood, which is at most the length of
\* the returned text.
C20_PositionAndLength ==
    (cursor_call # None /\ HasMarker(cursor_call[1].arg)) =>
        LET arg == cursor_call[1].arg
            ret == cursor_call[1].ret
        IN /\ ret.text = WithoutMarkerAt(arg, FirstMarker(arg))
           /\ str_len(ret.text) = str_len(arg) - 3
           /\ ret.pos = Some(BytePosition(arg, FirstMarker(arg)))
           /\ ret.pos[1] <= str_len(ret.text)

\* C20 witness: find_cursor_position was called on a text with two markers,
\* the first after a two-byte letter, and the second is still in the text it
\* returned.
C20_Witness ==
    /\ cursor_call # None
    /\ cursor_call[1].ret.pos = Some(2)
    /\ HasMarker(cursor_call[1].ret.text)

\* The indices of the letters of a trigger.
Letters(trigger) == {i \in DOMAIN trigger : is_alphabetic(trigger[i])}

\* The trigger has a letter and all its letters are uppercase.
AllUpper(trigger) ==
    /\ Letters(trigger) # {}
    /\ \A i \in Letters(trigger) : is_uppercase(trigger[i])

\* The first letter of the trigger is uppercase and all its other letters
\* are lowercase.
TitleCase(trigger) ==
    \E i \in Letters(trigger) :
       /\ \A j \in Letters(trigger) : i <= j
       /\ is_uppercase(trigger[i])
       /\ \A j \in Letters(trigger) : j > i => is_lowercase(trigger[j])

\* r with its first char uppercased.
FirstUppercased(r) ==
    IF r = << >> THEN r ELSE to_uppercase(r[1]) \o SubSeq(r, 2, Len(r))

\* propagate_case has returned.
CaseReturned ==
    /\ builtin_call # None
    /\ builtin_call[1].fn = "propagate_case"
    /\ builtin_call[1].ret # None

\* C21: propagate_case(trigger, r) is r uppercased when the trigger has a
\* letter and all its letters are uppercase; otherwise r with its first char
\* uppercased when the first letter of the trigger, which may follow a prefix
\* of non-letters, is uppercase and all later letters are lowercase;
\* otherwise r.
C21_PropagateCase ==
    CaseReturned =>
        LET c == builtin_call[1]
        IN c.ret[1] = IF AllUpper(c.trigger) THEN str_to_uppercase(c.replacement)
                      ELSE IF TitleCase(c.trigger) THEN FirstUppercased(c.replacement)
                      ELSE c.replacement

\* C22: case propagation is idempotent: propagate_case applied to its own
\* result, with the same trigger, returns that result.
C22_Idempotent ==
    (CaseReturned /\ builtin_call[1].again # None) =>
        builtin_call[1].again = builtin_call[1].ret

\* C22 witness: a title-case trigger and a replacement that begins with ß,
\* whose uppercase is two chars, went through propagate_case twice, and the
\* first call changed the replacement.
C22_Witness ==
    /\ CaseReturned
    /\ builtin_call[1].again # None
    /\ builtin_call[1].replacement # << >>
    /\ builtin_call[1].replacement[1] = "ß"
    /\ Len(builtin_call[1].ret[1]) = Len(builtin_call[1].replacement) + 1
    /\ ~AllUpper(builtin_call[1].trigger)

\* expand_variables has returned, or panicked.
VariablesReturned ==
    /\ builtin_call # None
    /\ builtin_call[1].fn = "expand_variables"
    /\ builtin_call[1].ret # None

\* What a piece of a text becomes when no token fails: an unknown token
\* stays as written, a cursor token becomes the marker, a plain char stays.
PieceExpanded(piece) == IF piece \in CursorTokens THEN CURSOR_MARKER ELSE piece

\* C23: a token whose content names no variable never makes expand_variables
\* fail and stays in the output as it was written, char for char, with the
\* whitespace inside its braces, while the other tokens of the text are
\* substituted.
C23_UnknownVerbatim ==
    (/\ VariablesReturned
     /\ \E i \in DOMAIN builtin_call[1].pieces : builtin_call[1].pieces[i] \in UnknownTokens
     /\ \A i \in DOMAIN builtin_call[1].pieces :
           builtin_call[1].pieces[i] \in UnknownTokens \cup CursorTokens \cup {<<"x">>, <<"}">>})
    => /\ builtin_call[1].ret[1].ok
       /\ builtin_call[1].ret[1].text =
             Concat([i \in DOMAIN builtin_call[1].pieces |->
                        PieceExpanded(builtin_call[1].pieces[i])])

\* The text is the one token {{random:N}}.
RandomCall(n) ==
    /\ VariablesReturned
    /\ builtin_call[1].pieces = <<RandomToken(n)>>

\* C24: for N from 1 to 20 the token random:N expands to exactly N decimal
\* digits, one digit for N = 1 and otherwise a number from 10^(N-1) up to
\* 10^N, which does not begin with 0; for N = 0 and for N > 20 the expansion
\* fails with an error.
C24_RandomDigits ==
    \A n \in 0..MaxDigits :
       RandomCall(n) =>
          LET ret == builtin_call[1].ret[1]
          IN IF n >= 1 /\ n <= 20
             THEN /\ ret.ok
                  /\ Len(ret.text) = n
                  /\ \A i \in DOMAIN ret.text : is_digit(ret.text[i])
                  /\ n > 1 => ret.text[1] # "0"
             ELSE ~ret.ok /\ ~ret.panic

\* C25: map_key returns a char only for a key the keymap maps; a result
\* that is a letter is uppercase exactly when shift differs from caps_lock;
\* a result that is not a letter is the same with caps_lock on and off.
C25_MapKey ==
    monitor.map_call # None =>
        LET c == monitor.map_call[1]
            keymap == KeyMap_new(c.layout)
        IN c.ret # None =>
              /\ c.key \in DOMAIN keymap.normal \cup DOMAIN keymap.shifted
              /\ is_alphabetic(c.ret[1]) =>
                    (is_uppercase(c.ret[1]) <=> (c.shift # c.caps_lock))
              /\ ~is_alphabetic(c.ret[1]) =>
                    c.ret = map_key(keymap, c.key, c.shift, ~c.caps_lock)

\* The events a step appends to the event channel.
NewEvents == SubSeq(event_rx', Len(event_rx) + 1, Len(event_rx'))

\* What the raw event (key, value) may put on the event channel.
RawEventRule(key, value) ==
    LET keymap == KeyMap_new(config.settings.layout)
        modifier == key \in ShiftKeys \cup {"KEY_CAPSLOCK"}
        mapped == key \in DOMAIN keymap.normal \cup DOMAIN keymap.shifted
    IN /\ Len(event_rx') >= Len(event_rx)
       /\ SubSeq(event_rx', 1, Len(event_rx)) = event_rx
       /\ Len(NewEvents) <= 1
       /\ modifier => NewEvents = << >>
       /\ value = 0 => NewEvents = << >>
       /\ value = 2 /\ key # "KEY_BACKSPACE" => NewEvents = << >>
       /\ value = 1 /\ ~modifier =>
             Len(NewEvents) = (IF key \in SpecialKeys \/ mapped THEN 1 ELSE 0)
       /\ ~modifier =>
             /\ monitor'.shift_pressed = monitor.shift_pressed
             /\ monitor'.caps_lock = monitor.caps_lock

\* C26: every raw event (the one the monitor took last, raw) puts at most
\* one event on the event channel: none
\* for Shift and Caps Lock, which only update the modifier state, none for a
\* release, none for a repeat unless the key is BACKSPACE, and for a press of
\* another key exactly one if the key is special or mapped and none
\* otherwise.
C26_AtMostOneEvent ==
    [][monitor' # monitor \/ event_rx' # event_rx =>
          /\ monitor'.raw # None
          /\ RawEventRule(monitor'.raw[1].key, monitor'.raw[1].value)]_vars

\* A BACKSPACE that repeats has put its event on the channel.
C26_Witness ==
    /\ monitor.raw = Some([key |-> "KEY_BACKSPACE", value |-> 2])
    /\ monitor.sent = <<Backspace>>
    /\ event_rx = <<Backspace>>

\* The engine takes a key event off the event channel.
EventTaken == Len(event_rx') < Len(event_rx)

\* The engine takes a reload signal off the reload channel.
ReloadTaken == reload_rx' < reload_rx

\* The engine is between taking a key event and the end of the synthesizer
\* calls of its match.
Handling == pending # << >>

\* C27: the engine handles one input at a time, in the order of arrival: it
\* takes the key event at the head of the channel, and only when the
\* handling of the previous one, its synthesizer calls included, has ended;
\* while a match is synthesized the key events that arrive stay queued
\* behind those already there, and no reload is applied.
C27_OneAtATime ==
    [][/\ EventTaken => ~Handling /\ event_rx' = Tail(event_rx)
       /\ ReloadTaken => ~Handling
       /\ Handling =>
             /\ Len(event_rx') >= Len(event_rx)
             /\ SubSeq(event_rx', 1, Len(event_rx)) = event_rx
             /\ trie' = trie
             /\ regex_snippets' = regex_snippets
             /\ loaded' = loaded]_vars

\* While a match is synthesized, a call already made, a key event and a
\* reload signal wait in their channels.
C27_Witness ==
    /\ Handling
    /\ emitted # << >>
    /\ event_rx # << >>
    /\ reload_rx > 0

\* C28: reload signals and key events are handled in the order they were
\* sent: the engine takes a key event only if no reload signal sent before
\* it is waiting, and a reload signal only if no key event sent before it is
\* waiting.
C28_ReloadFifo ==
    [][/\ EventTaken => Head(sent_order) = "event"
       /\ ReloadTaken => Head(sent_order) = "reload"]_vars

\* The event channel is closed and drained.
EventsOver == ~event_tx_alive /\ event_rx = << >>

\* C29: once the event channel is closed and drained the run loop ends,
\* whether the reload channel is open or not: the engine, idle with no
\* reload signal left to take, breaks out of its loop.
C29_Terminates ==
    (EventsOver /\ pc = "idle" /\ reload_rx = 0) => ENABLED EngineStop

\* The patterns of the loaded regex snippets that do not compile.
BadPatterns ==
    {regex_snippets[i].trigger : i \in {j \in DOMAIN regex_snippets :
                                          ~Regex_new(regex_snippets[j].trigger).ok}}

\* check_and_expand has just run check_match on pre_buffer.
JustChecked == step \in {"pushed", "matched", "expand_failed"}

\* C30: a regex snippet whose pattern does not compile never matches and
\* does not keep a later regex snippet from matching, and between two
\* reloads its compile error is logged once per pattern, not on every
\* check_match.
C30_LoggedOnce ==
    /\ JustChecked /\ match_result # None =>
          Regex_new(match_result[1].snippet.trigger).ok
    /\ JustChecked /\ (\E i \in DOMAIN loaded : RegexMatchesTail(i, pre_buffer)) =>
          match_result # None
    /\ regex_errors <= Cardinality(BadPatterns)

\* ------------------------------------------------------------------ C31

\* C31: at most one reader thread is ever started per device path: a create
\* notification for a path that is already admitted starts no reader.
C31_OneReaderPerPath ==
    \A path \in Paths : monitor.spawned[path] <= 1

\* A keyboard came back under an admitted path, its create notification was
\* taken, and the path still has the one reader that was started for it.
C31_Witness ==
    \E path \in Paths :
       /\ path \in monitor.monitored_paths
       /\ monitor.nodes[path] = "keyboard"
       /\ monitor.spawned[path] = 1
       /\ monitor.watcher_rx = << >>
       /\ path \notin monitor.reading
       /\ monitor.raw # None

\* ------------------------------------------------------------------ C39

\* The create notification of path is still to be taken.
Notified(path) ==
    \E i \in 1..Len(monitor.watcher_rx) : monitor.watcher_rx[i] = path

\* C39: every keyboard node is served by a reader thread once the create
\* notifications for its path are taken, a keyboard that reappears under
\* the path of a stopped reader included; its key events are then taken by
\* the loop of run.
C39_Served ==
    \A path \in Paths :
       (monitor.nodes[path] = "keyboard" /\ ~Notified(path))
          => /\ path \in monitor.reading
             /\ ENABLED DeviceKey(path, "KEY_LEFTSHIFT", 0)

\* ------------------------------------------------------------------ C38

\* C38: shift_pressed is true exactly while at least one Shift key is down,
\* and a character key pressed while a Shift key is down is mapped with
\* shift.
C38_ShiftWhileHeld ==
    /\ monitor.shift_pressed <=> monitor.held # {}
    /\ (monitor.map_call # None /\ monitor.held # {})
          => monitor.map_call[1].shift

\* ------------------------------------------------------------------ C32

\* Everything but the flag.
AllButEnabled ==
    <<buffer, at_word_boundary, trie, regex_snippets, regex_cache,
      match_result, pre_buffer, loaded, read_snippets, typed, pc,
      config, event_rx, reload_rx, mgr_config, config_rx,
      pending, emitted, step, expansion, cursor_call,
      builtin_call, monitor, sent_order, event_tx_alive, reload_tx_alive,
      regex_errors, screen>>

\* C32: the flag changes only in the step of the tray toggle, which changes
\* nothing else: a step that stores a configuration, takes or sends a
\* message or moves the engine leaves the flag as it is, whatever
\* settings.enabled of the configuration says.
C32_OnlyToggle ==
    [][enabled' # enabled => UNCHANGED AllButEnabled]_vars

\* A configuration with settings.enabled false is in force, the flag is
\* true and the engine found a match under it.
C32_Witness ==
    /\ ~config.settings.enabled
    /\ enabled
    /\ match_result # None

\* ------------------------------------------------------------------ C36

\* The call the step issues, if it issues one.
IssuedNow == emitted'[Len(emitted')].call

\* C36: every text is typed with the keystroke_delay_ms of the configuration
\* in force when it is typed.
C36_DelayOfConfig ==
    [][(Len(emitted') = Len(emitted) + 1 /\ IssuedNow.cmd = "type")
          => IssuedNow.key_delay = config.settings.keystroke_delay_ms]_vars

\* ------------------------------------------------------------------ C33

\* loaded[i] is the literal snippet the longest-match rule selects for buf,
\* it requires a word boundary and the check of check_match on it fails.
LongestRejected(i, buf) ==
    /\ Unrivalled(i, buf)
    /\ loaded[i].word_boundary
    /\ ~trie_match_valid(buf, loaded[i], Len(loaded[i].trigger))

\* loaded[j] is an enabled literal snippet whose trigger ends buf and is
\* shorter than the trigger of loaded[i].
ShorterSuffix(j, i, buf) ==
    /\ loaded[j].enabled
    /\ ~loaded[j].regex
    /\ loaded[j].trigger # << >>
    /\ EndsWith(buf, loaded[j].trigger)
    /\ Len(loaded[j].trigger) < Len(loaded[i].trigger)

C37_CutsAtBoundary ==
    step \notin {"drain_panicked", "truncate_panicked"}

\* ------------------------------------------------------------------ C35

\* The engine takes the char ch with the switch on and push_char finds the
\* buffer over max_buffer_size.
Prunes(ch) ==
    /\ TakesEvent
    /\ enabled
    /\ Head(event_rx) = char_event(ch)
    /\ str_len(Append(buffer, ch)) > max_buffer_size

\* C35: whenever push_char prunes, the buffer it leaves to check_match is
\* the tail of what was typed, at least max_buffer_size / 2 bytes of it, and
\* the literal trigger that ends the typed text matches.
C35_RecentBytesKept ==
    [][\A ch \in Char :
          Prunes(ch) =>
             /\ step' # "drain_panicked"
             /\ EndsWith(Append(buffer, ch), pre_buffer')
             /\ str_len(pre_buffer') >= max_buffer_size \div 2
             /\ \A i \in DOMAIN loaded :
                   LiteralAccepted(i, Append(buffer, ch))
                   => /\ match_result' # None
                      /\ match_result'[1].snippet = loaded[i]
      ]_vars

\* ------------------------------------------------------------------ C40

\* C40: every MatchResult of check_match has chars_to_delete of at least 1
\* and a typed_trigger that is not empty: no empty literal trigger and no
\* pattern that matches the empty string produces a match.
C40_SomethingToDelete ==
    (Checked /\ match_result # None) =>
        /\ match_result[1].chars_to_delete >= 1
        /\ match_result[1].typed_trigger # << >>
====
